---- MODULE Spec2Model ----
(***************************************************************************)
(* The transfer submission workflow of the payout service:                 *)
(* SubmitTransfer._execute and the methods it calls                        *)
(* (app/payout/core/transfer/processors/submit_transfer.py), over the      *)
(* transfer, stripe_transfer, managed_account_transfer and payment_account *)
(* rows and the payment gateway.                                           *)
(*                                                                         *)
(* One submit is one step.  A method of the processor is an operator from  *)
(* the rows before it (a context c) to [c |-> rows after, exc |-> the      *)
(* exception it raises, "None" for a normal return].  None of Python is    *)
(* written 0 for integers and timestamps and "None" for strings; both are  *)
(* false where the code tests a value for truth.                           *)
(*                                                                         *)
(* Line 143 of submit_transfer.py binds the constituent transactions to    *)
(* the empty list.  Spec is the program as written.  SpecTxn is the same   *)
(* _execute with the list as an input, for the properties stated of a      *)
(* submit that passes the reconciliation of the amounts.                   *)
(***************************************************************************)
EXTENDS Integers, Sequences, FiniteSets, TLC

VARIABLES
    transfers,                  \* transfer rows, by id
    stripe_transfers,           \* stripe_transfer rows, in order of creation
    managed_account_transfers,  \* managed_account_transfer rows
    payment_accounts,           \* payment_account rows, by id
    stripe_managed_accounts,    \* stripe_managed_account rows, by id
    clock,                      \* number of submits so far
    last,                       \* the latest submit: request, result, gateway calls
    payment_intents,            \* payment_intent rows, by id
    pgp_payment_intents,        \* pgp_payment_intent rows, by id
    intent_calls,               \* the calls of CartPaymentRepository under way, by caller
    intent_clock,               \* number of statements the payment database has run
    payment_intents_adjustment_history,  \* adjustment history rows, in order of insertion
    adjustment_calls,           \* the adjustments made so far, and what each returned
    balance_checks,             \* the balance checks under way, by caller
    submits,                    \* the submits under way at the same time, by caller
    stripe_payout_requests,     \* stripe_payout_request rows, in order of insertion
    queries                     \* the queries made so far, and what each returned

payout_vars == <<transfers, stripe_transfers, managed_account_transfers,
                 payment_accounts, stripe_managed_accounts, clock, last>>

payin_vars == <<payment_intents, pgp_payment_intents, intent_calls, intent_clock>>

adjustment_vars == <<payment_intents_adjustment_history, adjustment_calls>>

query_vars == <<stripe_payout_requests, queries>>

vars == <<transfers, stripe_transfers, managed_account_transfers,
          payment_accounts, stripe_managed_accounts, clock, last,
          payment_intents, pgp_payment_intents, intent_calls, intent_clock,
          payment_intents_adjustment_history, adjustment_calls, balance_checks, submits,
          stripe_payout_requests, queries>>

----------------------------------------------------------------------------
(* Bounds *)

MaxCalls == 1      \* submits in a behaviour
MaxAmount == 2     \* amounts and balances are 0 .. MaxAmount
MaxTxns == 1       \* constituent transactions of a transfer
MaxIntentId == 2   \* payment intent ids of a call are 1 .. MaxIntentId
MaxAdjustments == 3  \* adjustments in a behaviour

----------------------------------------------------------------------------
(* Types of app.payout.types as submit_transfer.py uses them *)

STRIPE == "stripe"
DOORDASH_PAY == "doordash_pay"
COD_INVOICE == "cod_invoice"

TRANSFER_METHOD_CHOICES == {STRIPE, DOORDASH_PAY, COD_INVOICE}

ACCOUNT_TYPE_STRIPE_MANAGED_ACCOUNT == "stripe_managed_account"

DASHER == "dasher"
STORE == "store"

SUBMITTING == "submitting"
SUBMITTED == "submitted"
FAILED_TO_SUBMIT == "failed_to_submit"

STRIPE_TRANSFER_FAILED_STATUS == "failed"

NO_EXT_ACCOUNT_IN_CURRENCY == "no_external_account_in_currency"
PAYOUT_NOT_ALLOWED == "payouts_not_allowed"
INVALID_REQUEST_ERROR == "invalid_request_error"
UNKNOWN_ERROR_STR == "unknown_error"

TRANSFER_ERROR_TYPE_TO_FAILED_STATUS ==
    {"STRIPE_PAYOUT_ACCT_MISSING", "STRIPE_PAYOUT_DISALLOWED",
     "STRIPE_INVALID_REQUEST_ERROR"}

PayoutErrorCode ==
    {"TRANSFER_NOT_FOUND", "INVALID_PAYMENT_ACCOUNT_ID",
     "MISMATCHED_TRANSFER_AMOUNT", "TRANSFER_INVALID_STATE",
     "TRANSFER_ALREADY_DELETED", "DUPLICATE_TRANSFER",
     "TRANSFER_DISABLED_ERROR", "TRANSFER_PROCESSING",
     "DUMMY_TRANSFER_CREATION_FAILED", "INVALID_STRIPE_ACCOUNT_ID",
     "MISMATCHED_TRANSFER_PAYMENT_ACCOUNT", "DUPLICATE_STRIPE_TRANSFER",
     "INVALID_STRIPE_ACCOUNT", "UNSUPPORTED_COUNTRY",
     "STRIPE_PAYOUT_ACCT_MISSING", "STRIPE_PAYOUT_DISALLOWED",
     "STRIPE_INVALID_REQUEST_ERROR", "STRIPE_SUBMISSION_ERROR"}

----------------------------------------------------------------------------
(* Results of a method *)

Ret(c, e) == [c |-> c, exc |-> e]

Raised(r) == r.exc # "None"

\* a partial update of a row: the fields the update names, and no other
UpdateRow(row, upd) ==
    [f \in DOMAIN row |-> IF f \in DOMAIN upd THEN upd[f] ELSE row[f]]

RECURSIVE SumSeq(_)
SumSeq(s) == IF s = <<>> THEN 0 ELSE Head(s) + SumSeq(Tail(s))

Abs(x) == IF x < 0 THEN -x ELSE x

----------------------------------------------------------------------------
(* The row store *)

\* a point lookup finds a row or nothing; has_X tells which
has_transfer(c, transfer_id) == transfer_id \in DOMAIN c.transfers

get_transfer_by_id(c, transfer_id) == c.transfers[transfer_id]

update_transfer_by_id(c, transfer_id, data) ==
    IF transfer_id \in DOMAIN c.transfers
    THEN [c EXCEPT !.transfers[transfer_id] = UpdateRow(@, data)]
    ELSE c

has_payment_account(c, payment_account_id) ==
    payment_account_id \in DOMAIN c.payment_accounts

get_payment_account_by_id(c, payment_account_id) ==
    c.payment_accounts[payment_account_id]

has_stripe_managed_account_row(c, account_id) ==
    account_id \in DOMAIN c.stripe_managed_accounts

get_stripe_managed_account_by_id(c, account_id) ==
    c.stripe_managed_accounts[account_id]

StripeTransfersOf(c, transfer_id) ==
    {i \in DOMAIN c.stripe_transfers : c.stripe_transfers[i].transfer_id = transfer_id}

Max(S) == CHOOSE x \in S : \A y \in S : y <= x

\* the id of the latest stripe_transfer of the transfer, 0 when it has none
get_latest_stripe_transfer_by_transfer_id(c, transfer_id) ==
    IF StripeTransfersOf(c, transfer_id) = {} THEN 0
    ELSE Max(StripeTransfersOf(c, transfer_id))

get_all_ongoing_stripe_transfers_by_transfer_id(c, transfer_id) ==
    {i \in StripeTransfersOf(c, transfer_id) :
        c.stripe_transfers[i].submission_status = SUBMITTING}

create_stripe_transfer(c, data) ==
    [c EXCEPT !.stripe_transfers = Append(@,
        [id |-> Len(@) + 1,
         transfer_id |-> data.transfer_id,
         submission_status |-> data.submission_status,
         stripe_status |-> data.stripe_status,
         stripe_id |-> 0,
         stripe_request_id |-> 0,
         stripe_account_id |-> 0,
         stripe_account_type |-> "None",
         country_shortname |-> "None",
         submission_error_type |-> "None",
         submission_error_code |-> "None",
         submitted_at |-> 0])]

update_stripe_transfer_by_id(c, stripe_transfer_id, data) ==
    IF stripe_transfer_id \in DOMAIN c.stripe_transfers
    THEN [c EXCEPT !.stripe_transfers[stripe_transfer_id] = UpdateRow(@, data)]
    ELSE c

\* the id of the managed_account_transfer of the transfer, 0 when it has none
get_managed_account_transfer_by_transfer_id(c, transfer_id) ==
    IF \E i \in DOMAIN c.managed_account_transfers :
            c.managed_account_transfers[i].transfer_id = transfer_id
    THEN CHOOSE i \in DOMAIN c.managed_account_transfers :
            /\ c.managed_account_transfers[i].transfer_id = transfer_id
            /\ \A j \in DOMAIN c.managed_account_transfers :
                 c.managed_account_transfers[j].transfer_id = transfer_id => i <= j
    ELSE 0

create_managed_account_transfer(c, data) ==
    [c EXCEPT !.managed_account_transfers = Append(@,
        [id |-> Len(@) + 1,
         transfer_id |-> data.transfer_id,
         payment_account_id |-> data.payment_account_id,
         amount |-> data.amount,
         currency |-> data.currency,
         stripe_id |-> 0,
         stripe_status |-> "None",
         submitted_at |-> 0])]

update_managed_account_transfer_by_id(c, managed_account_transfer_id, data) ==
    IF managed_account_transfer_id \in DOMAIN c.managed_account_transfers
    THEN [c EXCEPT !.managed_account_transfers[managed_account_transfer_id] =
                        UpdateRow(@, data)]
    ELSE c

----------------------------------------------------------------------------
(* app.payout.core.account.utils *)

get_country_shortname(c, payment_account) ==
    IF payment_account.account_id # 0
       /\ has_stripe_managed_account_row(c, payment_account.account_id)
    THEN get_stripe_managed_account_by_id(c, payment_account.account_id).country_shortname
    ELSE "None"

get_currency_code(country_shortname) ==
    IF country_shortname = "US" THEN "usd" ELSE "None"

\* the gateway error of a call that raised none
NoError == [type |-> "None", code |-> "None", request_id |-> 0, message |-> "None"]

\* a call of the gateway, as the log of the submit keeps it: the amount is
\* the one sent, or the balance answered, and the rows are those of the row
\* store when the call is made
GatewayCall(c, op, amount, ok, id, err) ==
    [op |-> op, amount |-> amount, ok |-> ok, id |-> id, err |-> err,
     stripe_transfers |-> c.stripe_transfers,
     managed_account_transfers |-> c.managed_account_transfers]

\* the balance the gateway reports for the account; no sub-account, no call
get_account_balance(c, payment_account, env) ==
    IF payment_account.account_id # 0
       /\ has_stripe_managed_account_row(c, payment_account.account_id)
    THEN [c |-> [c EXCEPT !.calls = Append(@,
                    GatewayCall(c, "getAccountBalance", env.balance, TRUE, 0, NoError))],
          balance |-> env.balance]
    ELSE [c |-> c, balance |-> 0]

----------------------------------------------------------------------------
(* SubmitTransfer *)

\* the dummy transfer that is marked paid and not stamped
handle_dummy_transfer_unstamped(c, transfer_id, method, env) ==
    Ret(update_transfer_by_id(c, transfer_id,
            [method |-> method, status |-> "PAID", status_code |-> "None"]),
        "None")

handle_dummy_transfer(c, transfer_id, method, env) ==
    Ret(update_transfer_by_id(c, transfer_id,
            [method |-> method, submitted_at |-> env.now,
             status |-> "PAID", status_code |-> "None"]),
        "None")

get_latest_transfer_submission(c, transfer_id, method) ==
    IF method = STRIPE
    THEN get_latest_stripe_transfer_by_transfer_id(c, transfer_id)
    ELSE 0

\* the in-flight check that asks for more than one ongoing submission
is_processing_or_processed_for_method_off_by_one(c, transfer_id, method) ==
    IF method = STRIPE
    THEN Cardinality(get_all_ongoing_stripe_transfers_by_transfer_id(c, transfer_id)) > 1
    ELSE FALSE

\* the in-flight guard that takes every stripe_transfer of the transfer
\* for an ongoing one
is_processing_or_processed_for_method_any_row(c, transfer_id, method) ==
    IF method = STRIPE
    THEN Cardinality(StripeTransfersOf(c, transfer_id)) > 0
    ELSE FALSE

is_processing_or_processed_for_method(c, transfer_id, method) ==
    IF method = STRIPE
    THEN Cardinality(get_all_ongoing_stripe_transfers_by_transfer_id(c, transfer_id)) > 0
    ELSE FALSE

\* the check of the account_id alone, without the look-up of the sub-account
has_stripe_managed_account_unchecked(c, payment_account, transfer_id) ==
    IF payment_account.account_id # 0
    THEN Ret(c, "None")
    ELSE Ret(update_transfer_by_id(c, transfer_id,
                [status |-> "FAILED", status_code |-> "ERROR_NO_GATEWAY_ACCOUNT"]),
             "INVALID_STRIPE_ACCOUNT_ID")

has_stripe_managed_account(c, payment_account, transfer_id) ==
    IF payment_account.account_id # 0
       /\ has_stripe_managed_account_row(c, payment_account.account_id)
    THEN Ret(c, "None")
    ELSE Ret(update_transfer_by_id(c, transfer_id,
                [status |-> "FAILED", status_code |-> "ERROR_NO_GATEWAY_ACCOUNT"]),
             "INVALID_STRIPE_ACCOUNT_ID")

\* the mismatch of the accounts raised and not recorded on the transfer
validate_payment_account_of_managed_account_transfer_unrecorded(c, payment_account, transfer_id, mat_id) ==
    IF mat_id # 0
       /\ c.managed_account_transfers[mat_id].payment_account_id # 0
       /\ payment_account.id # c.managed_account_transfers[mat_id].payment_account_id
    THEN Ret(c, "MISMATCHED_TRANSFER_PAYMENT_ACCOUNT")
    ELSE Ret(c, "None")

validate_payment_account_of_managed_account_transfer(c, payment_account, transfer_id, mat_id) ==
    IF mat_id # 0
       /\ c.managed_account_transfers[mat_id].payment_account_id # 0
       /\ payment_account.id # c.managed_account_transfers[mat_id].payment_account_id
    THEN Ret(update_transfer_by_id(c, transfer_id,
                [status |-> "ERROR", status_code |-> "ERROR_ACCOUNT_ID_MISMATCH"]),
             "MISMATCHED_TRANSFER_PAYMENT_ACCOUNT")
    ELSE Ret(c, "None")

NoManagedAccountTransfer ==
    [id |-> 0, transfer_id |-> 0, payment_account_id |-> 0, amount |-> 0,
     currency |-> "None", stripe_id |-> 0, stripe_status |-> "None", submitted_at |-> 0]

\* lines 352-365, with the balance the gateway answered
amount_still_needed_of(payment_account, amount, balance) ==
    IF payment_account.entity = DASHER THEN amount ELSE amount - balance

\* lines 374-417, with the managed_account_transfer that line 366 read
create_or_update_managed_account_transfer(c, payment_account, transfer_id, amount_still_needed, managed_account_transfer) ==
    LET country_shortname == get_country_shortname(c, payment_account)
    IN  IF amount_still_needed > 0
        THEN IF managed_account_transfer.id # 0
             THEN IF managed_account_transfer.amount < amount_still_needed
                  THEN update_managed_account_transfer_by_id(c,
                           managed_account_transfer.id, [amount |-> amount_still_needed])
                  ELSE c
             ELSE create_managed_account_transfer(c,
                      [amount |-> amount_still_needed,
                       transfer_id |-> transfer_id,
                       payment_account_id |-> payment_account.id,
                       currency |-> IF country_shortname # "None"
                                    THEN get_currency_code(country_shortname)
                                    ELSE "None"])
        ELSE IF managed_account_transfer.id # 0
             THEN update_managed_account_transfer_by_id(c,
                      managed_account_transfer.id, [amount |-> 0])
             ELSE c

managed_account_balance_check(c, payment_account, transfer_id, amount, env) ==
    LET bal == IF payment_account.entity = DASHER
               THEN [c |-> c, balance |-> 0]
               ELSE get_account_balance(c, payment_account, env)
        mat_id == get_managed_account_transfer_by_transfer_id(bal.c, transfer_id)
        v == validate_payment_account_of_managed_account_transfer(
                bal.c, payment_account, transfer_id, mat_id)
    IN  IF Raised(v) THEN v
        ELSE Ret(create_or_update_managed_account_transfer(v.c, payment_account,
                     transfer_id,
                     amount_still_needed_of(payment_account, amount, bal.balance),
                     IF mat_id # 0 THEN v.c.managed_account_transfers[mat_id]
                     ELSE NoManagedAccountTransfer), "None")

\* the failure code the message text gives when the gateway error has no code
NoExternalAccountMessages ==
    {"Sorry, you don't have any external accounts in that currency (usd)",
     "Sorry, you don't have any external accounts in that currency (cad). Add one."}

message_pattern_match(message) == message \in NoExternalAccountMessages

extract_failure_code_from_exception_message(message) ==
    IF message # "None" /\ message_pattern_match(message)
    THEN NO_EXT_ACCOUNT_IN_CURRENCY
    ELSE UNKNOWN_ERROR_STR

\* int(target_id) of get_stripe_transfer_metadata raises ValueError on a
\* target_id that is not a decimal numeral
IntLiterals == {"12"}

get_stripe_transfer_metadata_raises(target_id) ==
    target_id # "None" /\ target_id \notin IntLiterals

get_stripe_account_id(c, payment_account) ==
    IF payment_account.account_id # 0
       /\ has_stripe_managed_account_row(c, payment_account.account_id)
    THEN [exc |-> "None",
          stripe_id |-> get_stripe_managed_account_by_id(c, payment_account.account_id).stripe_id]
    ELSE [exc |-> "INVALID_STRIPE_ACCOUNT", stripe_id |-> 0]

\* the transfer to the sub-account whose failure is not raised
submit_managed_account_transfer_failure_swallowed(c, mat_id, payment_account, env) ==
    LET managed_account_transfer == c.managed_account_transfers[mat_id]
        called == [c EXCEPT !.calls = Append(@,
                      GatewayCall(c, "createTransfer", managed_account_transfer.amount,
                                  env.transfer.ok, env.transfer.id, env.transfer.err))]
    IN  IF managed_account_transfer.amount <= 0
        THEN [c |-> c, exc |-> "None", err |-> NoError]
        ELSE IF ~(payment_account.account_id # 0
                  /\ has_stripe_managed_account_row(c, payment_account.account_id))
        THEN [c |-> c, exc |-> "INVALID_STRIPE_ACCOUNT_ID", err |-> NoError]
        ELSE IF ~env.transfer.ok
        THEN [c |-> called, exc |-> "None", err |-> NoError]
        ELSE [c |-> update_managed_account_transfer_by_id(called, mat_id,
                        [stripe_id |-> env.transfer.id,
                         stripe_status |-> "paid",
                         submitted_at |-> env.now]),
              exc |-> "None", err |-> NoError]

\* lines 784-831
submit_managed_account_transfer(c, mat_id, payment_account, env) ==
    LET managed_account_transfer == c.managed_account_transfers[mat_id]
        called == [c EXCEPT !.calls = Append(@,
                      GatewayCall(c, "createTransfer", managed_account_transfer.amount,
                                  env.transfer.ok, env.transfer.id, env.transfer.err))]
    IN  IF managed_account_transfer.amount <= 0
        THEN [c |-> c, exc |-> "None", err |-> NoError]
        ELSE IF ~(payment_account.account_id # 0
                  /\ has_stripe_managed_account_row(c, payment_account.account_id))
        THEN [c |-> c, exc |-> "INVALID_STRIPE_ACCOUNT_ID", err |-> NoError]
        ELSE IF ~env.transfer.ok
        THEN [c |-> called, exc |-> "StripeError", err |-> env.transfer.err]
        ELSE [c |-> update_managed_account_transfer_by_id(called, mat_id,
                        [stripe_id |-> env.transfer.id,
                         stripe_status |-> "paid",
                         submitted_at |-> env.now]),
              exc |-> "None", err |-> NoError]

NoPayout == [id |-> 0, status |-> "None"]

create_for_managed_account(c, amount, transfer_id, payment_account, stripe_account_id, target_id, env) ==
    LET mat_id == get_managed_account_transfer_by_transfer_id(c, transfer_id)
        \* lines 755-782, after the managed account transfer m
        create_payout(m) ==
            LET country_shortname == get_country_shortname(m.c, payment_account)
                called == [m.c EXCEPT !.calls = Append(@,
                              GatewayCall(m.c, "createPayout", amount, env.payout.ok,
                                          env.payout.id, env.payout.err))]
            IN  IF m.exc # "None"
                THEN [c |-> m.c, exc |-> m.exc, err |-> m.err, payout |-> NoPayout]
                ELSE IF country_shortname = "None"
                THEN [c |-> m.c, exc |-> "UNSUPPORTED_COUNTRY", err |-> NoError,
                      payout |-> NoPayout]
                ELSE IF get_stripe_transfer_metadata_raises(target_id)
                THEN [c |-> m.c, exc |-> "ValueError", err |-> NoError,
                      payout |-> NoPayout]
                ELSE IF ~env.payout.ok
                THEN [c |-> called, exc |-> "StripeError", err |-> env.payout.err,
                      payout |-> NoPayout]
                ELSE [c |-> called, exc |-> "None", err |-> NoError,
                      payout |-> [id |-> env.payout.id, status |-> env.payout.status]]
    IN  create_payout(
            IF mat_id # 0 /\ c.managed_account_transfers[mat_id].amount > 0
            THEN submit_managed_account_transfer(c, mat_id, payment_account, env)
            ELSE [c |-> c, exc |-> "None", err |-> NoError])

\* the classification that looks at the error type before the error code
classify_stripe_error_type_first(updated_stripe_transfer) ==
    IF updated_stripe_transfer.submission_error_type = INVALID_REQUEST_ERROR
    THEN "STRIPE_INVALID_REQUEST_ERROR"
    ELSE IF updated_stripe_transfer.submission_error_code = NO_EXT_ACCOUNT_IN_CURRENCY
    THEN "STRIPE_PAYOUT_ACCT_MISSING"
    ELSE IF updated_stripe_transfer.submission_error_code = PAYOUT_NOT_ALLOWED
    THEN "STRIPE_PAYOUT_DISALLOWED"
    ELSE "STRIPE_SUBMISSION_ERROR"

\* the PayoutError a gateway error is raised as, from the updated row
classify_stripe_error(updated_stripe_transfer) ==
    IF updated_stripe_transfer.submission_error_code = NO_EXT_ACCOUNT_IN_CURRENCY
    THEN "STRIPE_PAYOUT_ACCT_MISSING"
    ELSE IF updated_stripe_transfer.submission_error_code = PAYOUT_NOT_ALLOWED
    THEN "STRIPE_PAYOUT_DISALLOWED"
    ELSE IF updated_stripe_transfer.submission_error_type = INVALID_REQUEST_ERROR
    THEN "STRIPE_INVALID_REQUEST_ERROR"
    ELSE "STRIPE_SUBMISSION_ERROR"

\* the created payout recorded on the stripe_transfer and not on the transfer
record_payout_created_on_stripe_transfer_only(c, stripe_transfer_id, transfer_id, payment_account, stripe_account_id, payout, env) ==
    update_stripe_transfer_by_id(c, stripe_transfer_id,
        [country_shortname |-> get_country_shortname(c, payment_account),
         stripe_account_id |-> stripe_account_id,
         stripe_account_type |-> ACCOUNT_TYPE_STRIPE_MANAGED_ACCOUNT,
         stripe_status |-> payout.status,
         stripe_id |-> payout.id,
         submission_status |-> SUBMITTED,
         submitted_at |-> env.now])

\* the created payout recorded on the transfer and not on the stripe_transfer
record_payout_created_on_transfer_only(c, stripe_transfer_id, transfer_id, payment_account, stripe_account_id, payout, env) ==
    update_transfer_by_id(c, transfer_id,
        [status |-> "PENDING", status_code |-> "None"])

\* lines 591-625: the payout was created
record_payout_created(c, stripe_transfer_id, transfer_id, payment_account, stripe_account_id, payout, env) ==
    update_transfer_by_id(
        update_stripe_transfer_by_id(c, stripe_transfer_id,
            [country_shortname |-> get_country_shortname(c, payment_account),
             stripe_account_id |-> stripe_account_id,
             stripe_account_type |-> ACCOUNT_TYPE_STRIPE_MANAGED_ACCOUNT,
             stripe_status |-> payout.status,
             stripe_id |-> payout.id,
             submission_status |-> SUBMITTED,
             submitted_at |-> env.now]),
        transfer_id, [status |-> "PENDING", status_code |-> "None"])

\* the gateway error recorded as SUBMITTED, request id or none
record_stripe_error_always_submitted(c, stripe_transfer_id, payment_account, stripe_account_id, err) ==
    LET submission_error_code ==
            IF err.code # "None" THEN err.code
            ELSE extract_failure_code_from_exception_message(err.message)
    IN  update_stripe_transfer_by_id(c, stripe_transfer_id,
            [country_shortname |-> get_country_shortname(c, payment_account),
             stripe_account_id |-> stripe_account_id,
             stripe_account_type |-> ACCOUNT_TYPE_STRIPE_MANAGED_ACCOUNT,
             stripe_status |-> STRIPE_TRANSFER_FAILED_STATUS,
             stripe_request_id |-> err.request_id,
             submission_status |-> SUBMITTED,
             submission_error_type |-> err.type,
             submission_error_code |-> submission_error_code])

\* lines 627-663: the gateway raised err
record_stripe_error(c, stripe_transfer_id, payment_account, stripe_account_id, err) ==
    LET submission_error_code ==
            IF err.code # "None" THEN err.code
            ELSE extract_failure_code_from_exception_message(err.message)
    IN  update_stripe_transfer_by_id(c, stripe_transfer_id,
            [country_shortname |-> get_country_shortname(c, payment_account),
             stripe_account_id |-> stripe_account_id,
             stripe_account_type |-> ACCOUNT_TYPE_STRIPE_MANAGED_ACCOUNT,
             stripe_status |-> STRIPE_TRANSFER_FAILED_STATUS,
             stripe_request_id |-> err.request_id,
             submission_status |-> IF err.request_id # 0 THEN SUBMITTED
                                   ELSE FAILED_TO_SUBMIT,
             submission_error_type |-> err.type,
             submission_error_code |-> submission_error_code])

_submit_stripe_transfer(c, stripe_transfer_id, payment_account, amount, transfer_id, target_id, env) ==
    LET stripe_transfer == c.stripe_transfers[stripe_transfer_id]
        \* lines 664-702, on the row that lines 634-653 updated
        raise_classified(failed) ==
            Ret(failed, classify_stripe_error(failed.stripe_transfers[stripe_transfer_id]))
        \* lines 581-702, with the stripe account id acct and the payout p
        try(acct, p) ==
            IF p.exc = "None"
            THEN Ret(record_payout_created(p.c, stripe_transfer_id, transfer_id,
                                           payment_account, acct.stripe_id, p.payout, env),
                     "None")
            ELSE IF p.exc = "StripeError"
            THEN raise_classified(
                     record_stripe_error(p.c, stripe_transfer_id, payment_account,
                                         acct.stripe_id, p.err))
            ELSE Ret(p.c, p.exc)
        \* lines 569-702, with the stripe account id acct
        submit(acct) ==
            IF acct.exc # "None" THEN Ret(c, acct.exc)
            ELSE IF payment_account.account_type # ACCOUNT_TYPE_STRIPE_MANAGED_ACCOUNT
            THEN Ret(c, "INVALID_STRIPE_ACCOUNT")
            ELSE try(acct, create_for_managed_account(c, amount, transfer_id,
                                payment_account, acct.stripe_id, target_id, env))
    IN  IF stripe_transfer.stripe_id # 0
        THEN Ret(c, "DUPLICATE_STRIPE_TRANSFER")
        ELSE submit(get_stripe_account_id(c, payment_account))

\* the PayoutError recorded as ERROR_SUBMISSION whatever its code
on_payout_error_never_failed(c, transfer_id, error_code, submitted_by, env) ==
    Ret(update_transfer_by_id(c, transfer_id,
            [status |-> "ERROR", status_code |-> "ERROR_SUBMISSION"]),
        error_code)

\* lines 498-529: except PayoutError as e
on_payout_error(c, transfer_id, error_code, submitted_by, env) ==
    IF error_code \in TRANSFER_ERROR_TYPE_TO_FAILED_STATUS
    THEN Ret(update_transfer_by_id(c, transfer_id,
                [status |-> "FAILED", status_code |-> error_code,
                 submitted_at |-> env.now,
                 submitted_by_id |-> submitted_by]), error_code)
    ELSE Ret(update_transfer_by_id(c, transfer_id,
                [status |-> "ERROR", status_code |-> "ERROR_SUBMISSION"]),
             error_code)

\* the unexpected exception recorded and raised again
on_exception_reraised(c, transfer_id, exception) ==
    Ret(update_transfer_by_id(c, transfer_id,
            [status |-> "ERROR", status_code |-> "UNKNOWN_ERROR"]), exception)

\* lines 530-548: except Exception as e, which does not raise
on_exception(c, transfer_id, exception) ==
    Ret(update_transfer_by_id(c, transfer_id,
            [status |-> "ERROR", status_code |-> "UNKNOWN_ERROR"]), "None")

\* lines 469-481: the status code cleared and the stripe_transfer created
create_submitting_stripe_transfer(c, transfer_id) ==
    create_stripe_transfer(
        update_transfer_by_id(c, transfer_id,
            [status_code |-> "None", should_retry_on_failure |-> FALSE]),
        [transfer_id |-> transfer_id,
         submission_status |-> SUBMITTING,
         stripe_status |-> ""])

\* lines 483-548, on the stripe_transfer that lines 474-481 created;
\* c.escaped is the exception that left the try block of lines 473-497
submit_created_stripe_transfer(created, stripe_transfer_id, transfer_id, payment_account, amount, target_id, submitted_by, env) ==
    LET \* lines 492-548, with what left the try block and the rows by then
        finish(exc, left) ==
            IF exc = "None"
            THEN Ret(update_transfer_by_id(left, transfer_id,
                        [submitted_at |-> env.now, submitted_by_id |-> submitted_by]),
                     "None")
            ELSE IF exc \in PayoutErrorCode
            THEN on_payout_error(left, transfer_id, exc, submitted_by, env)
            ELSE on_exception(left, transfer_id, exc)
        except(s) == finish(s.exc, [s.c EXCEPT !.escaped = s.exc])
    IN  except(_submit_stripe_transfer(created, stripe_transfer_id,
                                       payment_account, amount, transfer_id,
                                       target_id, env))

\* the stripe_transfer created as SUBMITTED, before the gateway is called
submit_stripe_transfer_created_submitted(c, transfer_id, payment_account, amount, target_id, submitted_by, env) ==
    LET submit(created) ==
            submit_created_stripe_transfer(created, Len(created.stripe_transfers),
                transfer_id, payment_account, amount, target_id, submitted_by, env)
    IN  submit(create_stripe_transfer(
                   update_transfer_by_id(c, transfer_id,
                       [status_code |-> "None", should_retry_on_failure |-> FALSE]),
                   [transfer_id |-> transfer_id,
                    submission_status |-> SUBMITTED,
                    stripe_status |-> ""]))

\* lines 449-548
submit_stripe_transfer(c, transfer_id, payment_account, amount, target_id, submitted_by, env) ==
    LET submit(created) ==
            submit_created_stripe_transfer(created, Len(created.stripe_transfers),
                transfer_id, payment_account, amount, target_id, submitted_by, env)
    IN  submit(create_submitting_stripe_transfer(c, transfer_id))

\* line 198 calls the coroutine function get_latest_transfer_submission
\* without awaiting it: the operand of "or" is the coroutine object, and an
\* object of Python is true
CoroutineObject == TRUE

is_duplicate_submission(c, transfer, transfer_id, method) ==
    transfer.submitted_at # 0 \/ CoroutineObject

\* the retry guard without its test of transfers_enabled
is_retry_of_disabled_account_any(transfer, payment_account) ==
    transfer.status = "ERROR"

\* lines 208-211: a retry that is not to be attempted
is_retry_of_disabled_account(transfer, payment_account) ==
    transfer.status = "ERROR" /\ ~payment_account.transfers_enabled

\* the lookup of the transactions returning one of the full amount
transactions_found == <<MaxAmount>>

\* line 143: the constituent transactions of the transfer
transactions == <<>>

\* the missing payment account recorded on the transfer before the raise
invalid_payment_account_marked(c, transfer_id) ==
    Ret(update_transfer_by_id(c, transfer_id,
            [status |-> "ERROR", status_code |-> "ERROR_INVALID_STATE"]),
        "INVALID_PAYMENT_ACCOUNT_ID")

\* lines 135-140: the transfer has no payment account
invalid_payment_account(c, transfer_id) ==
    Ret(c, "INVALID_PAYMENT_ACCOUNT_ID")

\* the mismatch of the amounts raised and not recorded on the transfer
reconcile_unrecorded(c, transfer_id, transfer, txns) ==
    IF txns # <<>>
    THEN IF Abs(SumSeq(txns) - transfer.amount) # 0
         THEN Ret(c, "MISMATCHED_TRANSFER_AMOUNT")
         ELSE Ret(c, "None")
    ELSE Ret(update_transfer_by_id(c, transfer_id,
                [status |-> "ERROR", status_code |-> "ERROR_INVALID_STATE"]),
             "TRANSFER_INVALID_STATE")

\* lines 144-172: the amounts of the transactions against the transfer's
reconcile(c, transfer_id, transfer, txns) ==
    IF txns # <<>>
    THEN IF Abs(SumSeq(txns) - transfer.amount) # 0
         THEN Ret(update_transfer_by_id(c, transfer_id,
                     [status |-> "ERROR", status_code |-> "ERROR_AMOUNT_MISMATCH"]),
                  "MISMATCHED_TRANSFER_AMOUNT")
         ELSE Ret(c, "None")
    ELSE Ret(update_transfer_by_id(c, transfer_id,
                [status |-> "ERROR", status_code |-> "ERROR_INVALID_STATE"]),
             "TRANSFER_INVALID_STATE")

_execute(c, req, txns, env) ==
    LET transfer_id == req.transfer_id
        transfer == get_transfer_by_id(c, transfer_id)
        payment_account == get_payment_account_by_id(c, transfer.payment_account_id)
        method == IF req.method # "None" THEN req.method ELSE transfer.method
        \* lines 241-245, after has_stripe_managed_account
        balance_check(h) ==
            IF Raised(h) THEN h
            ELSE managed_account_balance_check(h.c, payment_account, transfer_id,
                                               transfer.amount, env)
        \* lines 247-256, after the checks of lines 237-245
        submit(checked) ==
            IF Raised(checked) THEN checked
            ELSE submit_stripe_transfer(checked.c, transfer_id, payment_account,
                                        transfer.amount, req.target_id,
                                        req.submitted_by, env)
        \* lines 174-256, after the reconciliation of lines 142-172
        reconciled(rec) ==
            IF Raised(rec) THEN rec
            \* line 176 does not await get_country_shortname: TransferUpdate is
            \* given a coroutine object for its currency and rejects it
            ELSE IF transfer.currency = "None"
            THEN Ret(c, "ValidationError")
            ELSE IF transfer.deleted_at # 0
            THEN Ret(c, "TRANSFER_ALREADY_DELETED")
            ELSE IF ~req.retry /\ is_duplicate_submission(c, transfer, transfer_id, method)
            THEN Ret(c, "DUPLICATE_TRANSFER")
            ELSE IF req.retry /\ is_retry_of_disabled_account(transfer, payment_account)
            THEN Ret(c, "TRANSFER_DISABLED_ERROR")
            ELSE IF req.method \notin TRANSFER_METHOD_CHOICES
            THEN Ret(c, "AssertionError")
            ELSE IF transfer.amount = 0 \/ req.method \in {DOORDASH_PAY, COD_INVOICE}
            THEN handle_dummy_transfer(c, transfer_id, req.method, env)
            ELSE IF is_processing_or_processed_for_method(c, transfer_id, req.method)
            THEN Ret(c, "TRANSFER_PROCESSING")
            ELSE submit(IF req.method = STRIPE
                        THEN balance_check(has_stripe_managed_account(
                                               c, payment_account, transfer_id))
                        ELSE Ret(c, "None"))
    IN  IF ~has_transfer(c, transfer_id)
        THEN Ret(c, "TRANSFER_NOT_FOUND")
        ELSE IF transfer.payment_account_id = 0
        THEN Ret(c, "AssertionError")
        ELSE IF ~has_payment_account(c, transfer.payment_account_id)
        THEN invalid_payment_account(c, transfer_id)
        ELSE reconciled(reconcile(c, transfer_id, transfer, txns))

----------------------------------------------------------------------------
(* The inputs of a submit *)

ExistingTransferIds == {1}
TransferIds == {1, 2}
ExistingPaymentAccountIds == {1}
PaymentAccountIds == {1, 2}
Amounts == 0 .. MaxAmount

\* a request for a transfer that does not exist, and the requests for one
\* that does; target_id is read on the gateway path, which STRIPE alone takes
Requests ==
    {r \in [transfer_id : TransferIds,
            method : {STRIPE, DOORDASH_PAY, COD_INVOICE, "None"},
            retry : BOOLEAN,
            submitted_by : {7},
            target_id : {"None", "12", "x"}] :
        /\ r.transfer_id \notin ExistingTransferIds
              => r.method = STRIPE /\ ~r.retry
        /\ (r.method # STRIPE \/ r.transfer_id \notin ExistingTransferIds)
              => r.target_id = "None"}

TransactionLists ==
    UNION {[1 .. n -> Amounts] : n \in 0 .. MaxTxns}

StripeErrors ==
    {e \in [type : {INVALID_REQUEST_ERROR, "api_error"},
            code : {NO_EXT_ACCOUNT_IN_CURRENCY, PAYOUT_NOT_ALLOWED, "None"},
            request_id : {0, 1},
            message : {"None", "Insufficient funds in Stripe account.",
                       "Sorry, you don't have any external accounts in that currency (usd)"}] :
        e.code # "None" => e.message = "None"}

PayoutOutcomes(now) ==
    {[ok |-> TRUE, id |-> now, status |-> "pending", err |-> NoError]}
    \cup {[ok |-> FALSE, id |-> 0, status |-> "None", err |-> e] : e \in StripeErrors}

TransferOutcomes(now) ==
    {[ok |-> TRUE, id |-> now, err |-> NoError],
     [ok |-> FALSE, id |-> 0,
      err |-> [type |-> "api_error", code |-> "None", request_id |-> 1,
               message |-> "None"]]}

Envs(now) ==
    [now : {now}, balance : Amounts, payout : PayoutOutcomes(now),
     transfer : TransferOutcomes(now)]

\* the gateway that is not called: its answers are of no account
QuietEnv(now) ==
    [now |-> now, balance |-> 0,
     payout |-> [ok |-> TRUE, id |-> now, status |-> "pending", err |-> NoError],
     transfer |-> [ok |-> TRUE, id |-> now, err |-> NoError]]

----------------------------------------------------------------------------
(* The state and the steps *)

NoTransfer ==
    [id |-> 0, amount |-> 0, payment_account_id |-> 0, status |-> "None",
     status_code |-> "None", submitted_at |-> 0, submitted_by_id |-> 0,
     deleted_at |-> 0, method |-> "None", currency |-> "None",
     should_retry_on_failure |-> FALSE]

InitStripeTransfer(submission_status, stripe_id) ==
    [id |-> 1, transfer_id |-> 1, submission_status |-> submission_status,
     stripe_status |-> IF stripe_id # 0 THEN "pending" ELSE "",
     stripe_id |-> stripe_id, stripe_request_id |-> 0,
     stripe_account_id |-> IF stripe_id # 0 THEN 5 ELSE 0,
     stripe_account_type |-> IF stripe_id # 0
                             THEN ACCOUNT_TYPE_STRIPE_MANAGED_ACCOUNT ELSE "None",
     country_shortname |-> IF stripe_id # 0 THEN "US" ELSE "None",
     submission_error_type |-> "None", submission_error_code |-> "None",
     submitted_at |-> IF stripe_id # 0 THEN 1 ELSE 0]

InitStripeTransfers ==
    {<<>>, <<InitStripeTransfer(SUBMITTING, 0)>>, <<InitStripeTransfer(SUBMITTED, 1)>>}

InitManagedAccountTransfers ==
    {<<>>} \cup
    {<<[id |-> 1, transfer_id |-> 1, payment_account_id |-> p, amount |-> a,
        currency |-> "usd", stripe_id |-> 0, stripe_status |-> "None",
        submitted_at |-> 0]>> : p \in PaymentAccountIds, a \in {0, MaxAmount}}
    \* the record of a submit whose createTransfer succeeded
    \cup {<<[id |-> 1, transfer_id |-> 1, payment_account_id |-> 1,
             amount |-> MaxAmount, currency |-> "usd", stripe_id |-> 1,
             stripe_status |-> "paid", submitted_at |-> 1]>>}

\* The row store a submit starts from.  The rows that a submit reads only
\* after a guard that rejects it are left at their defaults.
Init ==
    /\ transfers \in [ExistingTransferIds ->
          [id : ExistingTransferIds,
           amount : Amounts,
           payment_account_id : PaymentAccountIds,
           status : {"NEW", "FAILED", "ERROR"},
           status_code : {"None"},
           submitted_at : {0, 1},
           submitted_by_id : {0},
           deleted_at : {0, 1},
           method : {STRIPE},
           currency : {"None", "usd"},
           should_retry_on_failure : {FALSE}]]
    /\ payment_accounts \in [ExistingPaymentAccountIds ->
          [id : ExistingPaymentAccountIds,
           account_id : {0, 1, 2},
           account_type : {ACCOUNT_TYPE_STRIPE_MANAGED_ACCOUNT, "stripe_recipient"},
           entity : {DASHER, STORE},
           transfers_enabled : BOOLEAN]]
    /\ stripe_managed_accounts \in
          [{1} -> [id : {1}, stripe_id : {5}, country_shortname : {"US", "None"}]]
    /\ stripe_transfers \in InitStripeTransfers
    /\ managed_account_transfers \in InitManagedAccountTransfers
    /\ LET rejected == \/ transfers[1].payment_account_id \notin ExistingPaymentAccountIds
                       \/ transfers[1].currency = "None"
                       \/ transfers[1].deleted_at # 0
           dummy == transfers[1].amount = 0
           in_flight == \E i \in DOMAIN stripe_transfers :
                           stripe_transfers[i].submission_status = SUBMITTING
           no_sub_account == payment_accounts[1].account_id # 1
       IN  /\ rejected =>
               /\ payment_accounts[1].transfers_enabled
               /\ stripe_transfers = <<>>
           /\ (rejected \/ dummy \/ in_flight) =>
               payment_accounts[1].account_id = 1
           /\ (rejected \/ dummy \/ in_flight \/ no_sub_account) =>
               /\ payment_accounts[1].account_type = ACCOUNT_TYPE_STRIPE_MANAGED_ACCOUNT
               /\ payment_accounts[1].entity = STORE
               /\ stripe_managed_accounts[1].country_shortname = "US"
               /\ managed_account_transfers = <<>>
    /\ clock = 0
    /\ last = [transfer_id |-> 0, method |-> "None", retry |-> FALSE,
               submitted_by |-> 0, result |-> "Init", calls |-> <<>>,
               escaped |-> "None", pre |-> NoTransfer]
    /\ payment_intents = <<>>
    /\ pgp_payment_intents = <<>>
    /\ intent_calls = <<>>
    /\ intent_clock = 0
    /\ payment_intents_adjustment_history = <<>>
    /\ adjustment_calls = <<>>
    /\ balance_checks = <<>>
    /\ submits = <<>>
    /\ stripe_payout_requests = <<>>
    /\ queries = <<>>

Rows ==
    [transfers |-> transfers,
     stripe_transfers |-> stripe_transfers,
     managed_account_transfers |-> managed_account_transfers,
     payment_accounts |-> payment_accounts,
     stripe_managed_accounts |-> stripe_managed_accounts,
     calls |-> <<>>,
     escaped |-> "None"]

\* the step of a submit of req that ends as r
Finish(req, r) ==
    /\ clock' = clock + 1
    /\ transfers' = r.c.transfers
    /\ stripe_transfers' = r.c.stripe_transfers
    /\ managed_account_transfers' = r.c.managed_account_transfers
    /\ payment_accounts' = r.c.payment_accounts
    /\ stripe_managed_accounts' = r.c.stripe_managed_accounts
    /\ last' = [transfer_id |-> req.transfer_id, method |-> req.method,
                retry |-> req.retry, submitted_by |-> req.submitted_by,
                result |-> IF r.exc = "None" THEN "OK" ELSE r.exc,
                calls |-> r.c.calls,
                escaped |-> r.c.escaped,
                pre |-> IF has_transfer(Rows, req.transfer_id)
                        THEN get_transfer_by_id(Rows, req.transfer_id)
                        ELSE NoTransfer]
    /\ UNCHANGED payin_vars
    /\ UNCHANGED adjustment_vars
    /\ UNCHANGED query_vars
    /\ UNCHANGED <<balance_checks, submits>>

HasCall(r, op) == \E i \in DOMAIN r.c.calls : r.c.calls[i].op = op

\* The answers of the gateway are drawn for the submits that call it.  The
\* first call a submit makes does not depend on an answer, so a submit that
\* makes no call with QuietEnv makes none with any answer; and createPayout
\* is the last call, so its answer is drawn when the submit gets to it.
SubmitWith(req, txns) ==
    LET now == clock + 2
        \* the submit that got to createPayout ends with the answer to it
        answered(e, r1) ==
            IF ~HasCall(r1, "createPayout")
            THEN Finish(req, r1)
            ELSE \E payout \in PayoutOutcomes(now) :
                   Finish(req, _execute(Rows, req, txns, [e EXCEPT !.payout = payout]))
        with(e) == answered(e, _execute(Rows, req, txns, e))
        called(quiet, r0) ==
            IF r0.c.calls = <<>>
            THEN Finish(req, r0)
            ELSE \E balance \in Amounts : \E transfer \in TransferOutcomes(now) :
                   with([quiet EXCEPT !.balance = balance, !.transfer = transfer])
        probe(quiet) == called(quiet, _execute(Rows, req, txns, quiet))
    IN  probe(QuietEnv(now))

\* submit, as the program is written
Submit ==
    /\ clock < MaxCalls
    /\ \E req \in Requests : SubmitWith(req, transactions)

\* submit, with the constituent transactions the transaction store returns
SubmitTxn ==
    /\ clock < MaxCalls
    /\ \E req \in Requests : \E txns \in TransactionLists : SubmitWith(req, txns)

Next == Submit

Spec == Init /\ [][Next]_vars

NextTxn == SubmitTxn

SpecTxn == Init /\ [][NextTxn]_vars

----------------------------------------------------------------------------
(* managed_account_balance_check of two submits of one transfer that run at *)
(* the same time.  The method gives way at each await: a step is the answer *)
(* of the gateway to line 362, the look-up of line 366 with the validation  *)
(* of the row it read, or the writes of lines 374-417.                      *)

\* the transfer the two submits are of
CheckedTransferId == 1

\* the two submits whose balance checks are under way at the same time
Submitters == {1, 2}

InitBalanceCheck ==
    /\ transfers \in [ExistingTransferIds ->
          [id : ExistingTransferIds,
           amount : 1 .. MaxAmount,
           payment_account_id : ExistingPaymentAccountIds,
           status : {"FAILED"},
           status_code : {"None"},
           submitted_at : {0},
           submitted_by_id : {0},
           deleted_at : {0},
           method : {STRIPE},
           currency : {"usd"},
           should_retry_on_failure : {FALSE}]]
    /\ payment_accounts \in [ExistingPaymentAccountIds ->
          [id : ExistingPaymentAccountIds,
           account_id : {1},
           account_type : {ACCOUNT_TYPE_STRIPE_MANAGED_ACCOUNT},
           entity : {DASHER, STORE},
           transfers_enabled : {TRUE}]]
    /\ stripe_managed_accounts \in
          [{1} -> [id : {1}, stripe_id : {5}, country_shortname : {"US"}]]
    /\ stripe_transfers = <<>>
    /\ managed_account_transfers \in InitManagedAccountTransfers
    /\ clock = 0
    /\ last = [transfer_id |-> 0, method |-> "None", retry |-> FALSE,
               submitted_by |-> 0, result |-> "Init", calls |-> <<>>,
               escaped |-> "None", pre |-> NoTransfer]
    /\ payment_intents = <<>>
    /\ pgp_payment_intents = <<>>
    /\ intent_calls = <<>>
    /\ intent_clock = 0
    /\ payment_intents_adjustment_history = <<>>
    /\ adjustment_calls = <<>>
    /\ balance_checks = [k \in Submitters |->
          [pc |-> "get_account_balance", amount_still_needed |-> 0,
           managed_account_transfer |-> NoManagedAccountTransfer, exc |-> "None"]]
    /\ submits = <<>>
    /\ stripe_payout_requests = <<>>
    /\ queries = <<>>

\* the end of a step of the balance check of caller k
BalanceCheckStep(k, c, check) ==
    /\ transfers' = c.transfers
    /\ managed_account_transfers' = c.managed_account_transfers
    /\ balance_checks' = [balance_checks EXCEPT ![k] = check]
    /\ UNCHANGED <<stripe_transfers, payment_accounts, stripe_managed_accounts,
                   clock, last, submits>>
    /\ UNCHANGED payin_vars
    /\ UNCHANGED adjustment_vars
    /\ UNCHANGED query_vars

CheckedAccount == payment_accounts[transfers[CheckedTransferId].payment_account_id]

\* lines 352-365
GetAccountBalance(k) ==
    /\ balance_checks[k].pc = "get_account_balance"
    /\ \E balance \in Amounts :
          BalanceCheckStep(k, Rows,
              [balance_checks[k] EXCEPT
                  !.pc = "get_managed_account_transfer",
                  !.amount_still_needed =
                      amount_still_needed_of(CheckedAccount,
                          transfers[CheckedTransferId].amount, balance)])

\* lines 366-373
GetManagedAccountTransfer(k) ==
    /\ balance_checks[k].pc = "get_managed_account_transfer"
    /\ LET mat_id == get_managed_account_transfer_by_transfer_id(Rows, CheckedTransferId)
           v == validate_payment_account_of_managed_account_transfer(
                    Rows, CheckedAccount, CheckedTransferId, mat_id)
       IN  BalanceCheckStep(k, v.c,
               [balance_checks[k] EXCEPT
                   !.pc = IF Raised(v) THEN "done" ELSE "create_or_update",
                   !.managed_account_transfer =
                       IF mat_id # 0 THEN managed_account_transfers[mat_id]
                       ELSE NoManagedAccountTransfer,
                   !.exc = v.exc])

\* lines 374-417
CreateOrUpdateManagedAccountTransfer(k) ==
    /\ balance_checks[k].pc = "create_or_update"
    /\ BalanceCheckStep(k,
           create_or_update_managed_account_transfer(Rows, CheckedAccount,
               CheckedTransferId, balance_checks[k].amount_still_needed,
               balance_checks[k].managed_account_transfer),
           [balance_checks[k] EXCEPT !.pc = "done"])

NextBalanceCheck ==
    \E k \in Submitters :
        \/ GetAccountBalance(k)
        \/ GetManagedAccountTransfer(k)
        \/ CreateOrUpdateManagedAccountTransfer(k)

SpecBalanceCheck == InitBalanceCheck /\ [][NextBalanceCheck]_vars

----------------------------------------------------------------------------
(* _execute of two submits of one transfer by the method stripe that run at *)
(* the same time, the transaction list matching the amount.  A step is the  *)
(* guards of lines 196-236 on the rows of the moment, the checks of lines   *)
(* 237-245, the create of lines 469-481, or the gateway calls and the       *)
(* records of lines 483-548.                                                *)

InitSubmits ==
    /\ transfers \in [ExistingTransferIds ->
          [id : ExistingTransferIds,
           amount : 1 .. MaxAmount,
           payment_account_id : ExistingPaymentAccountIds,
           status : {"NEW"},
           status_code : {"None"},
           submitted_at : {0},
           submitted_by_id : {0},
           deleted_at : {0},
           method : {STRIPE},
           currency : {"usd"},
           should_retry_on_failure : {FALSE}]]
    /\ payment_accounts \in [ExistingPaymentAccountIds ->
          [id : ExistingPaymentAccountIds,
           account_id : {1},
           account_type : {ACCOUNT_TYPE_STRIPE_MANAGED_ACCOUNT},
           entity : {DASHER, STORE},
           transfers_enabled : {TRUE}]]
    /\ stripe_managed_accounts \in
          [{1} -> [id : {1}, stripe_id : {5}, country_shortname : {"US"}]]
    /\ stripe_transfers \in InitStripeTransfers
    /\ managed_account_transfers = <<>>
    /\ clock = 0
    /\ last = [transfer_id |-> 0, method |-> "None", retry |-> FALSE,
               submitted_by |-> 0, result |-> "Init", calls |-> <<>>,
               escaped |-> "None", pre |-> NoTransfer]
    /\ payment_intents = <<>>
    /\ pgp_payment_intents = <<>>
    /\ intent_calls = <<>>
    /\ intent_clock = 0
    /\ payment_intents_adjustment_history = <<>>
    /\ adjustment_calls = <<>>
    /\ balance_checks = <<>>
    /\ submits \in [Submitters ->
          [pc : {"guards"}, retry : BOOLEAN, stripe_transfer_id : {0},
           ongoing : {0}, result : {"None"}, calls : {<<>>}]]
    /\ stripe_payout_requests = <<>>
    /\ queries = <<>>

\* the end of a step of the submit of caller k, which leaves the rows c
SubmitStep(k, c, submit) ==
    /\ clock' = clock + 1
    /\ transfers' = c.transfers
    /\ stripe_transfers' = c.stripe_transfers
    /\ managed_account_transfers' = c.managed_account_transfers
    /\ submits' = [submits EXCEPT ![k] = [submit EXCEPT !.calls = @ \o c.calls]]
    /\ UNCHANGED <<payment_accounts, stripe_managed_accounts, last, balance_checks>>
    /\ UNCHANGED payin_vars
    /\ UNCHANGED adjustment_vars
    /\ UNCHANGED query_vars

\* lines 196-236: the duplicate guard, the retry guard and the in-flight
\* guard; ongoing is the number of rows the in-flight guard read
PassGuards(k) ==
    /\ submits[k].pc = "guards"
    /\ LET transfer == get_transfer_by_id(Rows, CheckedTransferId)
           result ==
               IF ~submits[k].retry
                  /\ is_duplicate_submission(Rows, transfer, CheckedTransferId, STRIPE)
               THEN "DUPLICATE_TRANSFER"
               ELSE IF submits[k].retry
                       /\ is_retry_of_disabled_account(transfer, CheckedAccount)
               THEN "TRANSFER_DISABLED_ERROR"
               ELSE IF is_processing_or_processed_for_method(Rows, CheckedTransferId, STRIPE)
               THEN "TRANSFER_PROCESSING"
               ELSE "None"
       IN  SubmitStep(k, Rows,
               [submits[k] EXCEPT
                   !.pc = IF result = "None" THEN "checks" ELSE "done",
                   !.ongoing = Cardinality(
                       get_all_ongoing_stripe_transfers_by_transfer_id(
                           Rows, CheckedTransferId)),
                   !.result = result])

\* lines 237-245
CheckAccountAndBalance(k) ==
    /\ submits[k].pc = "checks"
    /\ \E balance \in Amounts :
          LET env == [QuietEnv(clock + 2) EXCEPT !.balance = balance]
              balance_check(h) ==
                  IF Raised(h) THEN h
                  ELSE managed_account_balance_check(h.c, CheckedAccount,
                           CheckedTransferId, transfers[CheckedTransferId].amount, env)
              step(r) ==
                  SubmitStep(k, r.c,
                      [submits[k] EXCEPT
                          !.pc = IF Raised(r) THEN "done" ELSE "create",
                          !.result = r.exc])
          IN  step(balance_check(has_stripe_managed_account(
                       Rows, CheckedAccount, CheckedTransferId)))

\* lines 469-481
CreateStripeTransfer(k) ==
    /\ submits[k].pc = "create"
    /\ LET step(created) ==
               SubmitStep(k, created,
                   [submits[k] EXCEPT
                       !.pc = "gateway",
                       !.stripe_transfer_id = Len(created.stripe_transfers)])
       IN  step(create_submitting_stripe_transfer(Rows, CheckedTransferId))

\* lines 483-548
SubmitCreatedStripeTransfer(k) ==
    /\ submits[k].pc = "gateway"
    /\ \E payout \in PayoutOutcomes(clock + 2) :
       \E transfer \in TransferOutcomes(clock + 2) :
          LET env == [QuietEnv(clock + 2) EXCEPT !.payout = payout,
                                                !.transfer = transfer]
              step(r) ==
                  SubmitStep(k, r.c,
                      [submits[k] EXCEPT
                          !.pc = "done",
                          !.result = IF r.exc = "None" THEN "OK" ELSE r.exc])
          IN  step(submit_created_stripe_transfer(Rows,
                       submits[k].stripe_transfer_id, CheckedTransferId,
                       CheckedAccount, transfers[CheckedTransferId].amount,
                       "None", 0, env))

NextSubmits ==
    \E k \in Submitters :
        \/ PassGuards(k)
        \/ CheckAccountAndBalance(k)
        \/ CreateStripeTransfer(k)
        \/ SubmitCreatedStripeTransfer(k)

SpecSubmits == InitSubmits /\ [][NextSubmits]_vars

----------------------------------------------------------------------------
(* CartPaymentRepository: the status of a payment intent and of its pair     *)
(* (app/payin/repository/cart_payment_repo.py).  A statement of the payment  *)
(* database is one step; db is the two tables, and now the time of the       *)
(* statement.                                                                *)

IntentStatus == {"requires_capture", "capturing", "succeeded", "cancelled"}

ExistingPaymentIntentIds == {1}
PaymentIntentIds == 1 .. MaxIntentId
ExistingPgpPaymentIntentIds == {1}
PgpPaymentIntentIds == {1, 2}

\* the two callers whose calls are under way at the same time
Callers == {1, 2}

UPDATE_PAYMENT_INTENT_STATUS == "update_payment_intent_status"
UPDATE_PAYMENT_AND_PGP_PAYMENT_INTENT_STATUS ==
    "update_payment_and_pgp_payment_intent_status"
UPDATE_PAYMENT_INTENT_CAPTURE_STATE == "update_payment_intent_capture_state"
UPDATE_PGP_PAYMENT_INTENT_STATUS == "update_pgp_payment_intent_status"

NoPgpPaymentIntent ==
    [id |-> 0, payment_intent_id |-> 0, status |-> "None", updated_at |-> 0]

\* the WHERE clause that leaves the status out
payment_intent_status_where_id_only(db, id, previous_status) ==
    id \in DOMAIN db.payment_intents

\* lines 322-328: WHERE id = :id AND status = :previous_status
payment_intent_status_where(db, id, previous_status) ==
    /\ id \in DOMAIN db.payment_intents
    /\ db.payment_intents[id].status = previous_status

\* the update that writes the row and then tells the caller of the mismatch
update_payment_intent_status_written_on_failure(db, id, new_status, previous_status, now) ==
    IF id \in DOMAIN db.payment_intents
    THEN [db |-> [db EXCEPT !.payment_intents[id] =
                      [@ EXCEPT !.status = new_status, !.updated_at = now]],
          exc |-> IF payment_intent_status_where(db, id, previous_status)
                  THEN "None" ELSE "PaymentIntentCouldNotBeUpdatedError"]
    ELSE [db |-> db, exc |-> "PaymentIntentCouldNotBeUpdatedError"]

\* lines 309-338
update_payment_intent_status(db, id, new_status, previous_status, now) ==
    IF payment_intent_status_where(db, id, previous_status)
    THEN [db |-> [db EXCEPT !.payment_intents[id] =
                      [@ EXCEPT !.status = new_status, !.updated_at = now]],
          exc |-> "None"]
    ELSE [db |-> db, exc |-> "PaymentIntentCouldNotBeUpdatedError"]

\* lines 343-355: the statement finds the row by id alone; when it finds
\* none, fetch_one gives None and to_payment_intent subscripts it
update_payment_intent_capture_state(db, id, status, captured_at, now) ==
    IF id \in DOMAIN db.payment_intents
    THEN [db |-> [db EXCEPT !.payment_intents[id] =
                      [@ EXCEPT !.status = status, !.captured_at = captured_at,
                                !.updated_at = now]],
          exc |-> "None"]
    ELSE [db |-> db, exc |-> "TypeError"]

\* lines 493-501: by id alone, and to_pgp_payment_intent of None likewise
update_pgp_payment_intent_status(db, id, status, now) ==
    IF id \in DOMAIN db.pgp_payment_intents
    THEN [db |-> [db EXCEPT !.pgp_payment_intents[id] =
                      [@ EXCEPT !.status = status, !.updated_at = now]],
          exc |-> "None"]
    ELSE [db |-> db, exc |-> "TypeError"]

\* lines 544-549: the row the statement finds, by id alone
update_payment_intent_stmt_where(db, payment_intent_id) ==
    payment_intent_id \in DOMAIN db.payment_intents

update_payment_intent_stmt(db, new_status, payment_intent_id, now) ==
    [db EXCEPT !.payment_intents[payment_intent_id] =
        [@ EXCEPT !.status = new_status, !.updated_at = now]]

\* lines 550-560: the row the statement finds, by its id and its intent's
update_pgp_payment_intent_stmt_where(db, payment_intent_id, pgp_payment_intent_id) ==
    /\ pgp_payment_intent_id \in DOMAIN db.pgp_payment_intents
    /\ db.pgp_payment_intents[pgp_payment_intent_id].payment_intent_id = payment_intent_id

update_pgp_payment_intent_stmt(db, new_status, pgp_payment_intent_id, now) ==
    [db EXCEPT !.pgp_payment_intents[pgp_payment_intent_id] =
        [@ EXCEPT !.status = new_status, !.updated_at = now]]

\* payment_database_transaction: an exception that leaves the block undoes
\* what the block wrote, here the pgp_payment_intent row of the first statement
payment_database_transaction_rollback(db, undo) ==
    [db EXCEPT !.pgp_payment_intents[undo.id] = undo]

\* lines 561-566: the first statement of the transaction; "None" is the
\* return of None, and "in_transaction" the block going on
update_pgp_side(db, new_status, payment_intent_id, pgp_payment_intent_id, now) ==
    IF ~update_pgp_payment_intent_stmt_where(db, payment_intent_id, pgp_payment_intent_id)
    THEN [db |-> db, pc |-> "done", result |-> "None", undo |-> NoPgpPaymentIntent]
    ELSE [db |-> update_pgp_payment_intent_stmt(db, new_status,
                                                pgp_payment_intent_id, now),
          pc |-> "in_transaction", result |-> "Pending",
          undo |-> db.pgp_payment_intents[pgp_payment_intent_id]]

\* the second statement that finds no row and returns None as the first does
update_payment_side_returning_none(db, new_status, payment_intent_id, undo, now) ==
    IF ~update_payment_intent_stmt_where(db, payment_intent_id)
    THEN [db |-> db, result |-> "None"]
    ELSE [db |-> update_payment_intent_stmt(db, new_status, payment_intent_id, now),
          result |-> "OK"]

\* lines 567-576: the second statement, and the end of the transaction
update_payment_side(db, new_status, payment_intent_id, undo, now) ==
    IF ~update_payment_intent_stmt_where(db, payment_intent_id)
    THEN [db |-> payment_database_transaction_rollback(db, undo),
          result |-> "ValueError"]
    ELSE [db |-> update_payment_intent_stmt(db, new_status, payment_intent_id, now),
          result |-> "OK"]

PaymentDb ==
    [payment_intents |-> payment_intents,
     pgp_payment_intents |-> pgp_payment_intents]

\* the calls a caller makes; status_at_call is the status of the payment
\* intent of the call when the call is made
IntentCalls(intents) ==
    {[op |-> UPDATE_PAYMENT_INTENT_STATUS, id |-> id, pgp_id |-> 0,
      new_status |-> n, previous_status |-> p, pc |-> "called",
      result |-> "Pending", undo |-> NoPgpPaymentIntent,
      status_at_call |-> IF id \in DOMAIN intents THEN intents[id].status ELSE "None"] :
        id \in PaymentIntentIds, n \in IntentStatus, p \in IntentStatus}
    \cup
    {[op |-> UPDATE_PAYMENT_AND_PGP_PAYMENT_INTENT_STATUS, id |-> id, pgp_id |-> g,
      new_status |-> n, previous_status |-> "None", pc |-> "called",
      result |-> "Pending", undo |-> NoPgpPaymentIntent,
      status_at_call |-> IF id \in DOMAIN intents THEN intents[id].status ELSE "None"] :
        id \in PaymentIntentIds, g \in PgpPaymentIntentIds, n \in IntentStatus}
    \cup
    {[op |-> UPDATE_PAYMENT_INTENT_CAPTURE_STATE, id |-> id, pgp_id |-> 0,
      new_status |-> n, previous_status |-> "None", pc |-> "called",
      result |-> "Pending", undo |-> NoPgpPaymentIntent,
      status_at_call |-> IF id \in DOMAIN intents THEN intents[id].status ELSE "None"] :
        id \in PaymentIntentIds, n \in IntentStatus}

\* the calls a caller makes of a pgp_payment_intent by its id; status_at_call
\* is the status of that row when the call is made
PgpIntentCalls(pgp_intents) ==
    {[op |-> UPDATE_PGP_PAYMENT_INTENT_STATUS, id |-> 0, pgp_id |-> g,
      new_status |-> n, previous_status |-> "None", pc |-> "called",
      result |-> "Pending", undo |-> NoPgpPaymentIntent,
      status_at_call |-> IF g \in DOMAIN pgp_intents THEN pgp_intents[g].status
                         ELSE "None"] :
        g \in PgpPaymentIntentIds, n \in IntentStatus}

\* The payment database and two calls made of it at the same time.  The
\* pgp_payment_intent is the pair of payment intent 1, or of one that has no
\* row.
InitIntent ==
    /\ transfers = <<>>
    /\ stripe_transfers = <<>>
    /\ managed_account_transfers = <<>>
    /\ payment_accounts = <<>>
    /\ stripe_managed_accounts = <<>>
    /\ clock = 0
    /\ last = [transfer_id |-> 0, method |-> "None", retry |-> FALSE,
               submitted_by |-> 0, result |-> "Init", calls |-> <<>>,
               escaped |-> "None", pre |-> NoTransfer]
    /\ payment_intents \in [ExistingPaymentIntentIds ->
          [id : ExistingPaymentIntentIds, status : IntentStatus, amount : {1},
           captured_at : {0}, updated_at : {0}]]
    /\ pgp_payment_intents \in [ExistingPgpPaymentIntentIds ->
          [id : ExistingPgpPaymentIntentIds, payment_intent_id : PaymentIntentIds,
           status : {"requires_capture", "capturing"}, updated_at : {0}]]
    /\ \A g \in DOMAIN pgp_payment_intents :
          /\ pgp_payment_intents[g].id = g
          /\ pgp_payment_intents[g].payment_intent_id \in {1, MaxIntentId}
    /\ \A i \in DOMAIN payment_intents : payment_intents[i].id = i
    /\ intent_calls \in [Callers -> IntentCalls(payment_intents)
                                      \cup PgpIntentCalls(pgp_payment_intents)]
    /\ intent_clock = 0
    /\ payment_intents_adjustment_history = <<>>
    /\ adjustment_calls = <<>>
    /\ balance_checks = <<>>
    /\ submits = <<>>
    /\ stripe_payout_requests = <<>>
    /\ queries = <<>>

\* the end of a statement of caller k
IntentStep(k, db, call) ==
    /\ payment_intents' = db.payment_intents
    /\ pgp_payment_intents' = db.pgp_payment_intents
    /\ intent_calls' = [intent_calls EXCEPT ![k] = call]
    /\ intent_clock' = intent_clock + 1
    /\ UNCHANGED payout_vars
    /\ UNCHANGED adjustment_vars
    /\ UNCHANGED query_vars
    /\ UNCHANGED <<balance_checks, submits>>

UpdatePaymentIntentStatus(k) ==
    /\ intent_calls[k].op = UPDATE_PAYMENT_INTENT_STATUS
    /\ intent_calls[k].pc = "called"
    /\ LET call == intent_calls[k]
           r == update_payment_intent_status(PaymentDb, call.id, call.new_status,
                                             call.previous_status, intent_clock + 1)
       IN  IntentStep(k, r.db,
               [call EXCEPT !.pc = "done",
                            !.result = IF r.exc = "None" THEN "OK" ELSE r.exc])

UpdatePaymentIntentCaptureState(k) ==
    /\ intent_calls[k].op = UPDATE_PAYMENT_INTENT_CAPTURE_STATE
    /\ intent_calls[k].pc = "called"
    /\ LET call == intent_calls[k]
           r == update_payment_intent_capture_state(PaymentDb, call.id, call.new_status,
                                                    intent_clock + 1, intent_clock + 1)
       IN  IntentStep(k, r.db,
               [call EXCEPT !.pc = "done",
                            !.result = IF r.exc = "None" THEN "OK" ELSE r.exc])

\* the row a transaction has written is locked until the transaction ends
PgpRowLocked(k, pgp_payment_intent_id) ==
    \E j \in Callers \ {k} :
        /\ intent_calls[j].pc = "in_transaction"
        /\ intent_calls[j].pgp_id = pgp_payment_intent_id

UpdatePgpPaymentIntentStatus(k) ==
    /\ intent_calls[k].op = UPDATE_PGP_PAYMENT_INTENT_STATUS
    /\ intent_calls[k].pc = "called"
    /\ ~PgpRowLocked(k, intent_calls[k].pgp_id)
    /\ LET call == intent_calls[k]
           r == update_pgp_payment_intent_status(PaymentDb, call.pgp_id,
                                                 call.new_status, intent_clock + 1)
       IN  IntentStep(k, r.db,
               [call EXCEPT !.pc = "done",
                            !.result = IF r.exc = "None" THEN "OK" ELSE r.exc])

UpdatePgpSide(k) ==
    /\ intent_calls[k].op = UPDATE_PAYMENT_AND_PGP_PAYMENT_INTENT_STATUS
    /\ intent_calls[k].pc = "called"
    /\ ~PgpRowLocked(k, intent_calls[k].pgp_id)
    /\ LET call == intent_calls[k]
           r == update_pgp_side(PaymentDb, call.new_status, call.id, call.pgp_id,
                                intent_clock + 1)
       IN  IntentStep(k, r.db,
               [call EXCEPT !.pc = r.pc, !.result = r.result, !.undo = r.undo])

UpdatePaymentSide(k) ==
    /\ intent_calls[k].op = UPDATE_PAYMENT_AND_PGP_PAYMENT_INTENT_STATUS
    /\ intent_calls[k].pc = "in_transaction"
    /\ LET call == intent_calls[k]
           r == update_payment_side(PaymentDb, call.new_status, call.id, call.undo,
                                    intent_clock + 1)
       IN  IntentStep(k, r.db, [call EXCEPT !.pc = "done", !.result = r.result])

NextIntent ==
    \E k \in Callers :
        \/ UpdatePaymentIntentStatus(k)
        \/ UpdatePaymentIntentCaptureState(k)
        \/ UpdatePgpPaymentIntentStatus(k)
        \/ UpdatePgpSide(k)
        \/ UpdatePaymentSide(k)

SpecIntent == InitIntent /\ [][NextIntent]_vars

----------------------------------------------------------------------------
(* CartPaymentRepository: the adjustment history of a payment intent.  An   *)
(* adjustment is one step: the look-up of the idempotency key and, when it  *)
(* finds no row, the update of the amount and the insert in one             *)
(* transaction.                                                             *)

IdempotencyKeys == {1, 2}
AmountDeltas == {1, 2}

NoAdjustmentHistory ==
    [id |-> 0, payer_id |-> 0, payment_intent_id |-> 0, amount |-> 0,
     amount_original |-> 0, amount_delta |-> 0, currency |-> "None",
     idempotency_key |-> 0, created_at |-> 0]

\* the look-up that compares the row's id with the payment intent's
get_payment_intent_adjustment_history_by_row_id(db, payment_intent_id, idempotency_key) ==
    LET found == {i \in DOMAIN db.payment_intents_adjustment_history :
                    /\ db.payment_intents_adjustment_history[i].id = payment_intent_id
                    /\ db.payment_intents_adjustment_history[i].idempotency_key
                          = idempotency_key}
    IN  IF found = {} THEN NoAdjustmentHistory
        ELSE db.payment_intents_adjustment_history[
                 CHOOSE i \in found : \A j \in found : i <= j]

\* lines 406-421: the row of the payment intent and the key, or None
get_payment_intent_adjustment_history(db, payment_intent_id, idempotency_key) ==
    LET found == {i \in DOMAIN db.payment_intents_adjustment_history :
                    /\ db.payment_intents_adjustment_history[i].payment_intent_id
                          = payment_intent_id
                    /\ db.payment_intents_adjustment_history[i].idempotency_key
                          = idempotency_key}
    IN  IF found = {} THEN NoAdjustmentHistory
        ELSE db.payment_intents_adjustment_history[
                 CHOOSE i \in found : \A j \in found : i <= j]

\* lines 357-368: by id alone; to_payment_intent subscripts the None of a
\* statement that found no row
\* the update of the amount that also rewrites the amount of the history
\* rows of the payment intent
update_payment_intent_amount_rewriting_history(db, id, amount, now) ==
    IF id \notin DOMAIN db.payment_intents
    THEN [db |-> db, exc |-> "TypeError"]
    ELSE [db |-> [db EXCEPT
                     !.payment_intents[id].amount = amount,
                     !.payment_intents[id].updated_at = now,
                     !.payment_intents_adjustment_history =
                         [i \in DOMAIN @ |->
                             IF @[i].payment_intent_id = id
                             THEN [@[i] EXCEPT !.amount = amount]
                             ELSE @[i]]],
          exc |-> "None"]

update_payment_intent_amount(db, id, amount, now) ==
    IF id \in DOMAIN db.payment_intents
    THEN [db |-> [db EXCEPT !.payment_intents[id] =
                      [@ EXCEPT !.amount = amount, !.updated_at = now]],
          exc |-> "None"]
    ELSE [db |-> db, exc |-> "TypeError"]

\* lines 636-665: the insert, which looks for no earlier row
insert_payment_intent_adjustment_history(db, id, payer_id, payment_intent_id, amount, amount_original, amount_delta, currency, idempotency_key, now) ==
    LET row == [id |-> id, payer_id |-> payer_id,
                payment_intent_id |-> payment_intent_id, amount |-> amount,
                amount_original |-> amount_original, amount_delta |-> amount_delta,
                currency |-> currency, idempotency_key |-> idempotency_key,
                created_at |-> now]
    IN  [db |-> [db EXCEPT !.payment_intents_adjustment_history = Append(@, row)],
         row |-> row]

\* The adjustment operation: the row of the idempotency key when there is
\* one; else the amount of the payment intent updated and the history row
\* inserted, both or neither.
adjust_payment_intent_amount(db, payment_intent_id, amount_delta, idempotency_key, now) ==
    LET existing == get_payment_intent_adjustment_history(db, payment_intent_id,
                                                          idempotency_key)
        \* the insert after the update u of the amount
        insert(u, amount_original) ==
            IF u.exc # "None"
            THEN [db |-> db, exc |-> u.exc, row |-> NoAdjustmentHistory]
            ELSE [exc |-> "None"] @@
                 insert_payment_intent_adjustment_history(
                     u.db, Len(db.payment_intents_adjustment_history) + 1, 0,
                     payment_intent_id, amount_original + amount_delta,
                     amount_original, amount_delta, "usd", idempotency_key, now)
    IN  IF existing # NoAdjustmentHistory
        THEN [db |-> db, exc |-> "None", row |-> existing]
        ELSE IF payment_intent_id \notin DOMAIN db.payment_intents
        THEN insert(update_payment_intent_amount(db, payment_intent_id, 0, now), 0)
        ELSE insert(update_payment_intent_amount(db, payment_intent_id,
                        db.payment_intents[payment_intent_id].amount + amount_delta, now),
                    db.payment_intents[payment_intent_id].amount)

AdjustmentDb ==
    [payment_intents |-> payment_intents,
     payment_intents_adjustment_history |-> payment_intents_adjustment_history]

\* the payment database before the adjustments
InitAdjust ==
    /\ transfers = <<>>
    /\ stripe_transfers = <<>>
    /\ managed_account_transfers = <<>>
    /\ payment_accounts = <<>>
    /\ stripe_managed_accounts = <<>>
    /\ clock = 0
    /\ last = [transfer_id |-> 0, method |-> "None", retry |-> FALSE,
               submitted_by |-> 0, result |-> "Init", calls |-> <<>>,
               escaped |-> "None", pre |-> NoTransfer]
    /\ payment_intents \in [ExistingPaymentIntentIds ->
          [id : ExistingPaymentIntentIds, status : {"requires_capture"},
           amount : Amounts, captured_at : {0}, updated_at : {0}]]
    /\ pgp_payment_intents = <<>>
    /\ intent_calls = <<>>
    /\ intent_clock = 0
    /\ payment_intents_adjustment_history = <<>>
    /\ adjustment_calls = <<>>
    /\ balance_checks = <<>>
    /\ submits = <<>>
    /\ stripe_payout_requests = <<>>
    /\ queries = <<>>

AdjustPaymentIntentAmount ==
    /\ Len(adjustment_calls) < MaxAdjustments
    /\ \E payment_intent_id \in PaymentIntentIds, amount_delta \in AmountDeltas, idempotency_key \in IdempotencyKeys :
          LET r == adjust_payment_intent_amount(AdjustmentDb, payment_intent_id,
                       amount_delta, idempotency_key, Len(adjustment_calls) + 1)
          IN  /\ payment_intents' = r.db.payment_intents
              /\ payment_intents_adjustment_history' =
                     r.db.payment_intents_adjustment_history
              /\ adjustment_calls' = Append(adjustment_calls,
                     [payment_intent_id |-> payment_intent_id,
                      amount_delta |-> amount_delta,
                      idempotency_key |-> idempotency_key,
                      exc |-> r.exc, row |-> r.row])
    /\ UNCHANGED payout_vars
    /\ UNCHANGED <<pgp_payment_intents, intent_calls, intent_clock, balance_checks, submits>>
    /\ UNCHANGED query_vars

NextAdjust == AdjustPaymentIntentAmount

SpecAdjust == InitAdjust /\ [][NextAdjust]_vars

----------------------------------------------------------------------------
(* CartPaymentRepository: the queries of the capture sweep, on a table of   *)
(* payment intents that does not change while they run.  A time is a        *)
(* number and NULL the time that is not set.                                *)

NULL == 0

REQUIRES_CAPTURE == "requires_capture"
SUCCEEDED == "succeeded"
CANCELLED == "cancelled"

\* the statuses of a payment intent, FAILED among them
CaptureStatus == IntentStatus \cup {"failed"}

Times == 1 .. 2

\* the number of rows of a page
PageSize == 1

FIND_PAYMENT_INTENTS == "find_payment_intents_that_require_capture_before_cutoff"
COUNT_PAYMENT_INTENTS == "count_payment_intents_that_require_capture"

\* the where clause that compares with < where line 151 has <=
requires_capture_before_cutoff_strictly(row, cutoff) ==
    /\ row.status = REQUIRES_CAPTURE
    /\ row.capture_after # NULL
    /\ row.capture_after < cutoff

\* lines 147-152; a comparison with NULL is not true
requires_capture_before_cutoff(row, cutoff) ==
    /\ row.status = REQUIRES_CAPTURE
    /\ row.capture_after # NULL
    /\ row.capture_after <= cutoff

\* the ids of S in the order of created_at, and of the id within one time
RECURSIVE order_by_created_at(_, _)
order_by_created_at(rows, S) ==
    IF S = {} THEN <<>>
    ELSE LET first == CHOOSE i \in S :
                        \A j \in S :
                            \/ rows[i].created_at < rows[j].created_at
                            \/ /\ rows[i].created_at = rows[j].created_at
                               /\ i <= j
         IN  <<first>> \o order_by_created_at(rows, S \ {first})

\* the pages of the ordered rows from offset on, one after another
RECURSIVE pages_from(_, _)
pages_from(ordered, offset) ==
    IF offset >= Len(ordered) THEN <<>>
    ELSE SubSeq(ordered, offset + 1,
                IF offset + PageSize <= Len(ordered) THEN offset + PageSize
                ELSE Len(ordered))
         \o pages_from(ordered, offset + PageSize)

\* the rows of the query, page by page in the order of created_at
paged_query(rows, matching) == pages_from(order_by_created_at(rows, matching), 0)

\* lines 140-158: the ids of the payment intents yielded, in order
find_payment_intents_that_require_capture_before_cutoff(rows, cutoff) ==
    paged_query(rows,
        {i \in DOMAIN rows : requires_capture_before_cutoff(rows[i], cutoff)})

\* lines 160-191; now is the time of the database
count_payment_intents_that_require_capture(rows, problematic_threshold, now) ==
    Cardinality({i \in DOMAIN rows :
                    /\ rows[i].status \notin {SUCCEEDED, CANCELLED}
                    /\ rows[i].capture_after # NULL
                    /\ rows[i].capture_after <= now - problematic_threshold})

InitCapture ==
    /\ transfers = <<>>
    /\ stripe_transfers = <<>>
    /\ managed_account_transfers = <<>>
    /\ payment_accounts = <<>>
    /\ stripe_managed_accounts = <<>>
    /\ clock = 0
    /\ last = [transfer_id |-> 0, method |-> "None", retry |-> FALSE,
               submitted_by |-> 0, result |-> "Init", calls |-> <<>>,
               escaped |-> "None", pre |-> NoTransfer]
    /\ payment_intents \in [PaymentIntentIds ->
          [status : CaptureStatus, capture_after : {NULL} \cup Times,
           created_at : Times]]
    /\ pgp_payment_intents = <<>>
    /\ intent_calls = <<>>
    /\ intent_clock = 0
    /\ payment_intents_adjustment_history = <<>>
    /\ adjustment_calls = <<>>
    /\ balance_checks = <<>>
    /\ submits = <<>>
    /\ stripe_payout_requests = <<>>
    /\ queries = <<>>

\* the end of a query, which writes no row
Answered(query) ==
    /\ queries' = Append(queries, query)
    /\ UNCHANGED payout_vars
    /\ UNCHANGED payin_vars
    /\ UNCHANGED adjustment_vars
    /\ UNCHANGED <<balance_checks, submits, stripe_payout_requests>>

FindPaymentIntentsThatRequireCapture ==
    /\ Len(queries) < MaxCalls
    /\ \E cutoff \in Times :
          Answered([op |-> FIND_PAYMENT_INTENTS, cutoff |-> cutoff,
                    result |-> find_payment_intents_that_require_capture_before_cutoff(
                                   payment_intents, cutoff)])

CountPaymentIntentsThatRequireCapture ==
    /\ Len(queries) < MaxCalls
    /\ \E problematic_threshold \in {0, 1} : \E now \in Times :
          Answered([op |-> COUNT_PAYMENT_INTENTS,
                    cutoff |-> now - problematic_threshold,
                    result |-> count_payment_intents_that_require_capture(
                                   payment_intents, problematic_threshold, now)])

NextCapture ==
    \/ FindPaymentIntentsThatRequireCapture
    \/ CountPaymentIntentsThatRequireCapture

SpecCapture == InitCapture /\ [][NextCapture]_vars

----------------------------------------------------------------------------
(* The repositories whose tables start empty *)

InitQueries ==
    /\ transfers = <<>>
    /\ stripe_transfers = <<>>
    /\ managed_account_transfers = <<>>
    /\ payment_accounts = <<>>
    /\ stripe_managed_accounts = <<>>
    /\ clock = 0
    /\ last = [transfer_id |-> 0, method |-> "None", retry |-> FALSE,
               submitted_by |-> 0, result |-> "Init", calls |-> <<>>,
               escaped |-> "None", pre |-> NoTransfer]
    /\ payment_intents = <<>>
    /\ pgp_payment_intents = <<>>
    /\ intent_calls = <<>>
    /\ intent_clock = 0
    /\ payment_intents_adjustment_history = <<>>
    /\ adjustment_calls = <<>>
    /\ balance_checks = <<>>
    /\ submits = <<>>
    /\ stripe_payout_requests = <<>>
    /\ queries = <<>>

----------------------------------------------------------------------------
(* StripePayoutRequestRepository *)

PayoutIds == {1, 2}

GET_STRIPE_PAYOUT_REQUEST == "get_stripe_payout_request_by_payout_id"

NoStripePayoutRequest == [id |-> 0, payout_id |-> 0]

\* lines 37-47: an insert, whatever rows the table holds
create_stripe_payout_request(rows, data) ==
    Append(rows, [id |-> Len(rows) + 1, payout_id |-> data.payout_id])

\* lines 49-61
get_stripe_payout_request_by_payout_id(rows, payout_id) ==
    LET found == {i \in DOMAIN rows : rows[i].payout_id = payout_id}
    IN  IF found = {}
        THEN [exc |-> "None", row |-> NoStripePayoutRequest]
        ELSE IF Cardinality(found) # 1
        THEN [exc |-> "AssertionError", row |-> NoStripePayoutRequest]
        ELSE [exc |-> "None", row |-> rows[CHOOSE i \in found : TRUE]]

CreateStripePayoutRequest ==
    /\ Len(stripe_payout_requests) < MaxIntentId
    /\ \E payout_id \in PayoutIds :
          stripe_payout_requests' =
              create_stripe_payout_request(stripe_payout_requests,
                                           [payout_id |-> payout_id])
    /\ UNCHANGED payout_vars
    /\ UNCHANGED payin_vars
    /\ UNCHANGED adjustment_vars
    /\ UNCHANGED <<balance_checks, submits, queries>>

GetStripePayoutRequestByPayoutId ==
    /\ Len(queries) < MaxAdjustments
    /\ \E payout_id \in PayoutIds :
          Answered([op |-> GET_STRIPE_PAYOUT_REQUEST, payout_id |-> payout_id]
                   @@ get_stripe_payout_request_by_payout_id(
                          stripe_payout_requests, payout_id))

NextPayoutRequests ==
    \/ CreateStripePayoutRequest
    \/ GetStripePayoutRequestByPayoutId

SpecPayoutRequests == InitQueries /\ [][NextPayoutRequests]_vars

----------------------------------------------------------------------------
(* MxScheduledLedgerRepository: the interval of a routing key.  A time is   *)
(* the number of half days from the base timestamp, 2019-07-01 Pacific.     *)

WEEKLY == "weekly"
DAILY == "daily"

\* timedelta(days=1), in half days
Day == 2

\* the routing keys are from MaxOffset half days before the base to as many after
MaxOffset == 20
RoutingKeys == (0 - MaxOffset) .. MaxOffset

PACIFIC_INTERVAL == "pacific_interval"

\* ceil(a / b) of a positive b
Ceil(a, b) == 0 - ((0 - a) \div b)

\* lines 111-115
interval_in_timedelta(interval) == IF interval = WEEKLY THEN 7 * Day ELSE Day

\* lines 101-120
pacific_start_time_for_current_interval(routing_key, interval) ==
    LET num_intervals == Ceil(routing_key, interval_in_timedelta(interval))
    IN  interval_in_timedelta(interval) * (num_intervals - 1)

\* lines 122-134
pacific_end_time_for_current_interval(routing_key, interval) ==
    LET num_intervals == Ceil(routing_key, interval_in_timedelta(interval))
    IN  interval_in_timedelta(interval) * num_intervals

PacificInterval ==
    /\ Len(queries) < MaxCalls
    /\ \E routing_key \in RoutingKeys : \E interval \in {WEEKLY, DAILY, "None"} :
          Answered([op |-> PACIFIC_INTERVAL,
                    routing_key |-> routing_key,
                    interval |-> interval,
                    start_time |-> pacific_start_time_for_current_interval(
                                       routing_key, interval),
                    end_time |-> pacific_end_time_for_current_interval(
                                     routing_key, interval)])

NextInterval == PacificInterval

SpecInterval == InitQueries /\ [][NextInterval]_vars

----------------------------------------------------------------------------
(* Properties of submit *)

Called == last.result # "Init"

\* a step is a submit
Step == clock' # clock

LastTransfer == transfers[last.transfer_id]

LastAccount == payment_accounts[last.pre.payment_account_id]

TransferAndAccountExisted ==
    /\ Called
    /\ last.pre.id # 0
    /\ last.pre.payment_account_id \in DOMAIN payment_accounts

RowsUnchanged ==
    UNCHANGED <<transfers, stripe_transfers, managed_account_transfers,
                payment_accounts, stripe_managed_accounts>>

MovesMoney(calls) ==
    \E i \in DOMAIN calls : calls[i].op \in {"createTransfer", "createPayout"}

\* the results of a submit that ends before the duplicate and retry guards
RejectedBeforeGuards ==
    {"TRANSFER_NOT_FOUND", "INVALID_PAYMENT_ACCOUNT_ID", "MISMATCHED_TRANSFER_AMOUNT",
     "TRANSFER_INVALID_STATE", "ValidationError", "TRANSFER_ALREADY_DELETED"}

\* ... before the dummy transfer and the in-flight guard
RejectedBeforeDummy ==
    RejectedBeforeGuards \cup
    {"DUPLICATE_TRANSFER", "TRANSFER_DISABLED_ERROR", "AssertionError"}

\* ... before the check of the gateway sub-account
RejectedBeforeGateway == RejectedBeforeDummy \cup {"TRANSFER_PROCESSING"}

\* C1: a submit whose transfer and payment account exist finds no constituent
\* transactions: it leaves the transfer in ERROR with ERROR_INVALID_STATE and
\* raises TRANSFER_INVALID_STATE, never MISMATCHED_TRANSFER_AMOUNT.
C1_StubRejectsEverySubmit ==
    TransferAndAccountExisted =>
        /\ last.result = "TRANSFER_INVALID_STATE"
        /\ LastTransfer.status = "ERROR"
        /\ LastTransfer.status_code = "ERROR_INVALID_STATE"

C1_Witness ==
    /\ TransferAndAccountExisted
    /\ last.result = "TRANSFER_INVALID_STATE"
    /\ last.pre.status = "NEW"
    /\ LastTransfer.status = "ERROR"

\* C2: a submit of an existing transfer of amount 0 with an existing payment
\* account ends with the transfer PAID and submitted_at set, and calls the
\* gateway not at all.
C2_ZeroAmountIsPaid ==
    (TransferAndAccountExisted /\ last.pre.amount = 0) =>
        /\ LastTransfer.status = "PAID"
        /\ LastTransfer.submitted_at # 0
        /\ last.calls = <<>>

\* C3: a submit with retry=false of a transfer that has submitted_at set
\* raises DUPLICATE_TRANSFER and leaves every row as it was.
C3_SubmittedIsDuplicate ==
    [][(/\ Step
        /\ last'.pre.id # 0
        /\ last'.pre.submitted_at # 0
        /\ ~last'.retry)
       => (last'.result = "DUPLICATE_TRANSFER" /\ RowsUnchanged)]_vars

\* C4: a submit with retry=false that gets to the duplicate-submission guard
\* raises DUPLICATE_TRANSFER exactly when the transfer has submitted_at set or
\* a stripe_transfer exists for the method; with neither it goes on.
C4_DuplicateGuardIsExact ==
    [][(/\ Step
        /\ ~last'.retry
        /\ last'.result \notin RejectedBeforeGuards)
       => (last'.result = "DUPLICATE_TRANSFER"
            <=> \/ last'.pre.submitted_at # 0
                \/ get_latest_transfer_submission(Rows, last'.transfer_id,
                      IF last'.method # "None" THEN last'.method
                      ELSE last'.pre.method) # 0)]_vars

ReachedRetryGuard ==
    /\ Called
    /\ last.retry
    /\ last.result \notin RejectedBeforeGuards

ReachedGateway ==
    /\ Called
    /\ last.method = STRIPE
    /\ last.pre.amount # 0
    /\ last.result \notin RejectedBeforeGateway

NoSubAccount ==
    \/ LastAccount.account_id = 0
    \/ LastAccount.account_id \notin DOMAIN stripe_managed_accounts

\* C6: a STRIPE submit of a non-zero amount that passes the earlier guards, for
\* an account with no account_id or no gateway sub-account, leaves the transfer
\* FAILED with ERROR_NO_GATEWAY_ACCOUNT, raises INVALID_STRIPE_ACCOUNT_ID,
\* creates no stripe_transfer and moves no money.
C6_NoGatewayAccount ==
    [][(Step /\ ReachedGateway' /\ NoSubAccount')
       => /\ last'.result = "INVALID_STRIPE_ACCOUNT_ID"
          /\ LastTransfer'.status = "FAILED"
          /\ LastTransfer'.status_code = "ERROR_NO_GATEWAY_ACCOUNT"
          /\ stripe_transfers' = stripe_transfers
          /\ ~MovesMoney(last'.calls)]_vars

C6_Witness ==
    /\ ReachedGateway
    /\ NoSubAccount
    /\ LastAccount.account_id # 0
    /\ last.result = "INVALID_STRIPE_ACCOUNT_ID"
    /\ LastTransfer.status = "FAILED"

PayoutsCreated ==
    {i \in DOMAIN last.calls : last.calls[i].op = "createPayout" /\ last.calls[i].ok}

\* C7: when createPayout succeeds, the stripe_transfer this submit created is
\* SUBMITTED with the payout's id and status, the transfer is PENDING with no
\* status_code, submitted_at set and submitted_by_id the request's, and the
\* submit returns success.
C7_PayoutSucceeded ==
    [][(Step /\ PayoutsCreated' # {})
       => /\ last'.result = "OK"
          /\ Len(stripe_transfers') = Len(stripe_transfers) + 1
          /\ LET created == stripe_transfers'[Len(stripe_transfers')]
             IN  /\ created.transfer_id = last'.transfer_id
                 /\ created.submission_status = SUBMITTED
                 /\ \A i \in PayoutsCreated' : created.stripe_id = last'.calls[i].id
                 /\ created.stripe_id # 0
                 /\ created.stripe_status = "pending"
          /\ LastTransfer'.status = "PENDING"
          /\ LastTransfer'.status_code = "None"
          /\ LastTransfer'.submitted_at # 0
          /\ LastTransfer'.submitted_by_id = last'.submitted_by]_vars

C7_Witness ==
    /\ PayoutsCreated # {}
    /\ last.result = "OK"
    /\ LastTransfer.status = "PENDING"
    /\ last.pre.submitted_at = 0
    /\ LastTransfer.submitted_by_id = 7

TookDummyPath ==
    /\ Called
    /\ last.result \notin RejectedBeforeDummy
    /\ (last.pre.amount = 0 \/ last.method \in {DOORDASH_PAY, COD_INVOICE})

\* C8: a submit that passes the reconciliation, deleted and duplicate or retry
\* guards, of amount 0 or by DOORDASH_PAY or COD_INVOICE, marks the transfer
\* PAID with submitted_at set and no status_code, returns success, creates no
\* stripe_transfer and no managed_account_transfer and calls no gateway, an
\* in-flight stripe_transfer notwithstanding.
C8_DummyTransfer ==
    [][(Step /\ TookDummyPath')
       => /\ last'.result = "OK"
          /\ LastTransfer'.status = "PAID"
          /\ LastTransfer'.submitted_at # 0
          /\ LastTransfer'.status_code = "None"
          /\ stripe_transfers' = stripe_transfers
          /\ managed_account_transfers' = managed_account_transfers
          /\ last'.calls = <<>>]_vars

C8_Witness ==
    /\ TookDummyPath
    /\ last.result = "OK"
    /\ LastTransfer.status = "PAID"
    /\ last.pre.submitted_at = 0
    /\ \E i \in DOMAIN stripe_transfers :
          /\ stripe_transfers[i].transfer_id = last.transfer_id
          /\ stripe_transfers[i].submission_status = SUBMITTING

\* a STRIPE submit of a non-zero amount that gets to the in-flight guard
ReachedInFlightGuard ==
    /\ Called
    /\ last.method = STRIPE
    /\ last.pre.amount # 0
    /\ last.result \notin RejectedBeforeDummy

\* C9: a STRIPE submit of a non-zero amount that passes the earlier guards
\* while a SUBMITTING stripe_transfer of the transfer exists raises
\* TRANSFER_PROCESSING, creates no stripe_transfer, leaves the
\* managed_account_transfer alone and calls no gateway.
C9_InFlightGuard ==
    [][(/\ Step
        /\ ReachedInFlightGuard'
        /\ \E i \in StripeTransfersOf(Rows, last'.transfer_id) :
              stripe_transfers[i].submission_status = SUBMITTING)
       => /\ last'.result = "TRANSFER_PROCESSING"
          /\ stripe_transfers' = stripe_transfers
          /\ managed_account_transfers' = managed_account_transfers
          /\ last'.calls = <<>>]_vars

C9_Witness ==
    /\ ReachedInFlightGuard
    /\ last.result = "TRANSFER_PROCESSING"
    /\ \E i \in DOMAIN stripe_transfers :
          stripe_transfers[i].submission_status = SUBMITTING

\* C10: a submit of a transfer id that matches no transfer raises
\* TRANSFER_NOT_FOUND, and one of a transfer whose payment account does not
\* exist raises INVALID_PAYMENT_ACCOUNT_ID; neither creates or changes a row
\* of any table, nor calls the gateway.
C10_NotFound ==
    [][Step =>
        /\ last'.transfer_id \notin DOMAIN transfers
             => /\ last'.result = "TRANSFER_NOT_FOUND"
                /\ RowsUnchanged
                /\ last'.calls = <<>>
        /\ (/\ last'.transfer_id \in DOMAIN transfers
            /\ last'.pre.payment_account_id \notin DOMAIN payment_accounts)
             => /\ last'.result = "INVALID_PAYMENT_ACCOUNT_ID"
                /\ RowsUnchanged
                /\ last'.calls = <<>>]_vars

C10_Witness ==
    /\ Called
    /\ last.pre.id # 0
    /\ last.pre.payment_account_id \notin DOMAIN payment_accounts
    /\ last.result = "INVALID_PAYMENT_ACCOUNT_ID"
    /\ LastTransfer = last.pre

\* C11: a submit of an existing transfer, with an existing payment account,
\* that has deleted_at set raises TRANSFER_ALREADY_DELETED whatever the retry
\* flag, the method and the amount, creates no stripe_transfer and calls no
\* gateway.
C11_DeletedIsRejected ==
    [][(/\ Step
        /\ TransferAndAccountExisted'
        /\ last'.pre.deleted_at # 0)
       => /\ last'.result = "TRANSFER_ALREADY_DELETED"
          /\ stripe_transfers' = stripe_transfers
          /\ last'.calls = <<>>]_vars

BusinessRuleRejections ==
    {"MISMATCHED_TRANSFER_AMOUNT", "DUPLICATE_TRANSFER",
     "TRANSFER_DISABLED_ERROR", "TRANSFER_PROCESSING"}

\* C12 (as stated): a submit that raises MISMATCHED_TRANSFER_AMOUNT,
\* DUPLICATE_TRANSFER, TRANSFER_DISABLED_ERROR or TRANSFER_PROCESSING has
\* written a corrective status on the transfer before it raises.
C12_RejectionPersistsStatus ==
    [][(Step /\ last'.result \in BusinessRuleRejections)
       => /\ LastTransfer'.status \in {"ERROR", "FAILED"}
          /\ LastTransfer'.status_code # "None"
          /\ LastTransfer' # last'.pre]_vars

\* C12 (amended): a submit that raises MISMATCHED_TRANSFER_AMOUNT has written
\* ERROR with ERROR_AMOUNT_MISMATCH on the transfer and nothing else; one that
\* raises DUPLICATE_TRANSFER, TRANSFER_DISABLED_ERROR or TRANSFER_PROCESSING
\* has written no row at all, so the transfer shows what it showed before;
\* none of the four calls the gateway.
C12_OnlyMismatchPersistsStatus ==
    [][(Step /\ last'.result \in BusinessRuleRejections)
       => /\ last'.calls = <<>>
          /\ IF last'.result = "MISMATCHED_TRANSFER_AMOUNT"
             THEN /\ LastTransfer' =
                        [last'.pre EXCEPT !.status = "ERROR",
                                          !.status_code = "ERROR_AMOUNT_MISMATCH"]
                  /\ UNCHANGED <<stripe_transfers, managed_account_transfers,
                                 payment_accounts, stripe_managed_accounts>>
             ELSE RowsUnchanged]_vars

C12_Witness ==
    /\ Called
    /\ last.result = "MISMATCHED_TRANSFER_AMOUNT"
    /\ last.pre.submitted_at # 0
    /\ LastTransfer.status = "ERROR"
    /\ LastTransfer.status_code = "ERROR_AMOUNT_MISMATCH"
    /\ LastTransfer.submitted_at = last.pre.submitted_at

C14_UnexpectedExceptionAbsorbed ==
    [][(Step /\ last'.escaped \notin PayoutErrorCode \cup {"None"})
       => /\ last'.result = "OK"
          /\ LastTransfer'.status = "ERROR"
          /\ LastTransfer'.status_code = "UNKNOWN_ERROR"]_vars

C14_Witness ==
    /\ Called
    /\ last.escaped = "ValueError"
    /\ last.result = "OK"
    /\ LastTransfer.status = "ERROR"
    /\ LastTransfer.status_code = "UNKNOWN_ERROR"
    /\ \E i \in DOMAIN stripe_transfers :
          /\ stripe_transfers[i].transfer_id = last.transfer_id
          /\ stripe_transfers[i].submission_status = SUBMITTING

\* C15: when a PayoutError leaves the try block of submit_stripe_transfer, the
\* submit raises that error, after it set the transfer to FAILED with the
\* error's code, submitted_at and submitted_by_id when the code is one of
\* TRANSFER_ERROR_TYPE_TO_FAILED_STATUS, and to ERROR with ERROR_SUBMISSION,
\* submitted_at as it was, when it is not.
C15_PayoutErrorPersistedAndRaised ==
    [][(Step /\ last'.escaped \in PayoutErrorCode)
       => /\ last'.result = last'.escaped
          /\ IF last'.escaped \in TRANSFER_ERROR_TYPE_TO_FAILED_STATUS
             THEN /\ LastTransfer'.status = "FAILED"
                  /\ LastTransfer'.status_code = last'.escaped
                  /\ LastTransfer'.submitted_at # 0
                  /\ LastTransfer'.submitted_at # last'.pre.submitted_at
                  /\ LastTransfer'.submitted_by_id = last'.submitted_by
             ELSE /\ LastTransfer'.status = "ERROR"
                  /\ LastTransfer'.status_code = "ERROR_SUBMISSION"
                  /\ LastTransfer'.submitted_at = last'.pre.submitted_at
                  /\ LastTransfer'.submitted_by_id = last'.pre.submitted_by_id]_vars

C15_Witness ==
    /\ Called
    /\ last.escaped = "STRIPE_PAYOUT_DISALLOWED"
    /\ last.result = "STRIPE_PAYOUT_DISALLOWED"
    /\ LastTransfer.status = "FAILED"
    /\ LastTransfer.status_code = "STRIPE_PAYOUT_DISALLOWED"
    /\ LastTransfer.submitted_by_id = 7

\* the createPayout calls of the latest submit that the gateway refused
FailedPayoutCalls ==
    {i \in DOMAIN last.calls :
        last.calls[i].op = "createPayout" /\ ~last.calls[i].ok}

\* the error code of a gateway error: its own, or the one its message gives
ErrorCodeOf(e) ==
    IF e.code # "None" THEN e.code
    ELSE IF e.message \in NoExternalAccountMessages THEN NO_EXT_ACCOUNT_IN_CURRENCY
    ELSE UNKNOWN_ERROR_STR

\* C16: a gateway error of createPayout is raised as STRIPE_PAYOUT_ACCT_MISSING
\* when its code is NO_EXT_ACCOUNT_IN_CURRENCY, else STRIPE_PAYOUT_DISALLOWED
\* when its code is PAYOUT_NOT_ALLOWED, else STRIPE_INVALID_REQUEST_ERROR when
\* its type is invalid-request, else STRIPE_SUBMISSION_ERROR; an error without
\* a code takes the code its message gives.
C16_GatewayErrorClassified ==
    [][Step =>
        \A i \in FailedPayoutCalls' :
            LET e == last'.calls[i].err
            IN  last'.escaped =
                    IF ErrorCodeOf(e) = NO_EXT_ACCOUNT_IN_CURRENCY
                    THEN "STRIPE_PAYOUT_ACCT_MISSING"
                    ELSE IF ErrorCodeOf(e) = PAYOUT_NOT_ALLOWED
                    THEN "STRIPE_PAYOUT_DISALLOWED"
                    ELSE IF e.type = INVALID_REQUEST_ERROR
                    THEN "STRIPE_INVALID_REQUEST_ERROR"
                    ELSE "STRIPE_SUBMISSION_ERROR"]_vars

C16_Witness ==
    \E i \in FailedPayoutCalls :
        /\ last.calls[i].err.code = "None"
        /\ last.calls[i].err.message \in NoExternalAccountMessages
        /\ last.calls[i].err.type = INVALID_REQUEST_ERROR
        /\ last.escaped = "STRIPE_PAYOUT_ACCT_MISSING"

\* C17: at a gateway error of createPayout the stripe_transfer this submit
\* created carries the error's type and code, and SUBMITTED when the error has
\* a request id and FAILED_TO_SUBMIT when it has none; the submit raises the
\* classified error.
C17_GatewayErrorRecorded ==
    [][Step =>
        \A i \in FailedPayoutCalls' :
            LET e == last'.calls[i].err
                created == stripe_transfers'[Len(stripe_transfers')]
            IN  /\ Len(stripe_transfers') = Len(stripe_transfers) + 1
                /\ created.transfer_id = last'.transfer_id
                /\ created.submission_error_type = e.type
                /\ created.submission_error_code = ErrorCodeOf(e)
                /\ created.stripe_request_id = e.request_id
                /\ created.submission_status =
                      IF e.request_id # 0 THEN SUBMITTED ELSE FAILED_TO_SUBMIT
                /\ last'.result \in {"STRIPE_PAYOUT_ACCT_MISSING",
                                     "STRIPE_PAYOUT_DISALLOWED",
                                     "STRIPE_INVALID_REQUEST_ERROR",
                                     "STRIPE_SUBMISSION_ERROR"}
                /\ last'.result = last'.escaped]_vars

C17_Witness ==
    \E i \in FailedPayoutCalls :
        /\ last.calls[i].err.request_id = 0
        /\ Len(stripe_transfers) > 0
        /\ stripe_transfers[Len(stripe_transfers)].submission_status = FAILED_TO_SUBMIT
        /\ stripe_transfers[Len(stripe_transfers)].submission_error_code = UNKNOWN_ERROR_STR
        /\ last.result = "STRIPE_SUBMISSION_ERROR"

\* the submit got through managed_account_balance_check: the next thing it
\* does is create its stripe_transfer
BalanceCheckCompleted ==
    /\ Step
    /\ Len(stripe_transfers') = Len(stripe_transfers) + 1

\* the balance the gateway answered to the submit, 0 when it was not asked
BalanceAnswered(calls) ==
    IF \E i \in DOMAIN calls : calls[i].op = "getAccountBalance"
    THEN calls[CHOOSE i \in DOMAIN calls : calls[i].op = "getAccountBalance"].amount
    ELSE 0

\* what the account lacks for the transfer of the submit
Shortfall(pre, account, calls) ==
    IF account.entity = DASHER THEN pre.amount
    ELSE pre.amount - BalanceAnswered(calls)

ManagedAccountTransfersOf(rows, transfer_id) ==
    {i \in DOMAIN rows : rows[i].transfer_id = transfer_id}

\* C26: after managed_account_balance_check has completed for a transfer of
\* amount A, a managed_account_transfer of the transfer holds max(shortfall, 0),
\* the shortfall being A for a DASHER, of whom the balance is not asked, and A
\* less the balance otherwise, whether the row was created or was there with
\* less or with more; with no row and no shortfall none is created.
C26_HoldsShortfall ==
    [][BalanceCheckCompleted =>
        LET shortfall == Shortfall(last'.pre, payment_accounts[last'.pre.payment_account_id],
                                   last'.calls)
            needed == IF shortfall > 0 THEN shortfall ELSE 0
        IN  /\ \A i \in ManagedAccountTransfersOf(managed_account_transfers',
                                                   last'.transfer_id) :
                  managed_account_transfers'[i].amount = needed
            /\ payment_accounts[last'.pre.payment_account_id].entity = DASHER
                  => \A j \in DOMAIN last'.calls : last'.calls[j].op # "getAccountBalance"
            /\ (/\ shortfall <= 0
                /\ ManagedAccountTransfersOf(managed_account_transfers,
                                              last'.transfer_id) = {})
                  => managed_account_transfers' = managed_account_transfers]_vars

\* the managed_account_transfer the submit finds for its transfer is of
\* another payment account than the transfer
AccountMismatch ==
    LET mat_id == get_managed_account_transfer_by_transfer_id(Rows, last'.transfer_id)
    IN  /\ mat_id # 0
        /\ managed_account_transfers[mat_id].payment_account_id # 0
        /\ managed_account_transfers[mat_id].payment_account_id
              # last'.pre.payment_account_id

\* C27: a STRIPE submit that gets to the gateway path for an account with a
\* gateway sub-account, and finds the managed_account_transfer of the transfer
\* to be of another payment account, sets the transfer to ERROR with
\* ERROR_ACCOUNT_ID_MISMATCH and raises MISMATCHED_TRANSFER_PAYMENT_ACCOUNT; it
\* leaves the managed_account_transfer as it was, creates no stripe_transfer
\* and calls the gateway for no transfer and no payout.
C27_AccountMismatchRejected ==
    [][(Step /\ ReachedGateway' /\ ~NoSubAccount' /\ AccountMismatch)
       => /\ last'.result = "MISMATCHED_TRANSFER_PAYMENT_ACCOUNT"
          /\ LastTransfer'.status = "ERROR"
          /\ LastTransfer'.status_code = "ERROR_ACCOUNT_ID_MISMATCH"
          /\ managed_account_transfers' = managed_account_transfers
          /\ stripe_transfers' = stripe_transfers
          /\ ~MovesMoney(last'.calls)]_vars

C27_Witness ==
    /\ ReachedGateway
    /\ last.result = "MISMATCHED_TRANSFER_PAYMENT_ACCOUNT"
    /\ LastTransfer.status = "ERROR"
    /\ LastTransfer.status_code = "ERROR_ACCOUNT_ID_MISMATCH"
    /\ last.pre.status # "ERROR"
    /\ Len(managed_account_transfers) = 1
    /\ managed_account_transfers[1].payment_account_id # last.pre.payment_account_id
    /\ managed_account_transfers[1].amount > 0
    /\ stripe_transfers = <<>>
    /\ \E i \in DOMAIN last.calls : last.calls[i].op = "getAccountBalance"

MoneyMovingOps == {"createTransfer", "createPayout"}

\* the gateway calls of the last submit that move money, by position
MoneyMovingCalls(calls) == {i \in DOMAIN calls : calls[i].op \in MoneyMovingOps}

CallsOf(calls, op) == {i \in DOMAIN calls : calls[i].op = op}

\* the row store at the call holds a stripe_transfer of the transfer that
\* is SUBMITTING and that was not there before the submit
SubmittingAtCall(call, transfer_id, before) ==
    \E j \in DOMAIN call.stripe_transfers :
        /\ j > Len(before)
        /\ call.stripe_transfers[j].transfer_id = transfer_id
        /\ call.stripe_transfers[j].submission_status = SUBMITTING

\* C29: in every submit on the gateway path, at the moment createTransfer or
\* createPayout is called the row store already holds a stripe_transfer of
\* the transfer that this submit created as SUBMITTING; a submit that stops
\* at any point has made a prefix of these calls.
C29_StripeTransferBeforeGateway ==
    [][\A i \in MoneyMovingCalls(last'.calls) :
          SubmittingAtCall(last'.calls[i], last'.transfer_id, stripe_transfers)]_vars

C29_Witness ==
    /\ CallsOf(last.calls, "createTransfer") # {}
    /\ CallsOf(last.calls, "createPayout") # {}
    /\ \E j \in DOMAIN stripe_transfers :
          /\ stripe_transfers[j].transfer_id = last.transfer_id
          /\ stripe_transfers[j].submission_status = SUBMITTED

\* the managed_account_transfers of the transfer that have a positive amount
PendingManagedAccountTransfers(rows, transfer_id) ==
    {i \in ManagedAccountTransfersOf(rows, transfer_id) : rows[i].amount > 0}

\* C30: within one submit, createTransfer is called before createPayout when
\* the managed_account_transfer of the transfer has a positive amount, and at
\* createPayout the record holds the id the gateway gave the transfer and
\* the status paid; after a createTransfer that failed createPayout is not
\* called; with no record or an amount of 0 createTransfer is not called.
C30_TransferBeforePayout ==
    LET calls == last.calls
        transfer_calls == CallsOf(calls, "createTransfer")
        payout_calls == CallsOf(calls, "createPayout")
    IN  /\ \A j \in payout_calls :
              PendingManagedAccountTransfers(
                  calls[j].managed_account_transfers, last.transfer_id) # {}
              => \E i \in transfer_calls :
                    /\ i < j
                    /\ calls[i].ok
                    /\ \A m \in PendingManagedAccountTransfers(
                              calls[j].managed_account_transfers, last.transfer_id) :
                          /\ calls[j].managed_account_transfers[m].stripe_id = calls[i].id
                          /\ calls[j].managed_account_transfers[m].stripe_status = "paid"
        /\ \A i \in transfer_calls :
              /\ \A j \in payout_calls : i < j
              /\ ~calls[i].ok => payout_calls = {}
              /\ PendingManagedAccountTransfers(
                     calls[i].managed_account_transfers, last.transfer_id) # {}

C30_Witness ==
    /\ \E i \in CallsOf(last.calls, "createTransfer") :
          \E j \in CallsOf(last.calls, "createPayout") :
              /\ i < j
              /\ last.calls[i].ok
              /\ last.calls[i].amount > 0
    /\ \E m \in DOMAIN managed_account_transfers :
          /\ managed_account_transfers[m].transfer_id = last.transfer_id
          /\ managed_account_transfers[m].stripe_status = "paid"

\* C35: when a submit finishes, returning or raising, the stripe_transfer
\* that it created is not SUBMITTING any more: on every way out of the final
\* submission step it is SUBMITTED or FAILED_TO_SUBMIT.
C35_CreatedRowLeavesSubmitting ==
    [][\A j \in DOMAIN stripe_transfers' :
          j > Len(stripe_transfers)
          => stripe_transfers'[j].submission_status \in {SUBMITTED, FAILED_TO_SUBMIT}]_vars

PaidManagedAccountTransfers(rows, transfer_id) ==
    {i \in ManagedAccountTransfersOf(rows, transfer_id) :
        rows[i].stripe_id # 0 /\ rows[i].stripe_status = "paid"}

\* C37: over the submits of a transfer, a retry among them, createTransfer
\* is called at most once for its managed_account_transfer: no submit calls
\* it for a record that is PAID with the id of a gateway transfer.
C37_PaidRecordNotTransferredAgain ==
    [][(/\ Step
        /\ PaidManagedAccountTransfers(managed_account_transfers,
                                       last'.transfer_id) # {})
       => CallsOf(last'.calls, "createTransfer") = {}]_vars

\* C38: in every state that submits reach, from transfers that are NEW with
\* no submission record among others, a transfer that is PENDING has a
\* stripe_transfer that is SUBMITTED with the id of a gateway payout: no
\* submit sets PENDING before that record is written.
C38_PendingHasSubmittedRecord ==
    \A t \in DOMAIN transfers :
        transfers[t].status = "PENDING"
        => \E i \in StripeTransfersOf(Rows, t) :
              /\ stripe_transfers[i].submission_status = SUBMITTED
              /\ stripe_transfers[i].stripe_id # 0

C38_Witness ==
    /\ Called
    /\ last.pre.status = "NEW"
    /\ LastTransfer.status = "PENDING"
    /\ Len(stripe_transfers) = 1
    /\ stripe_transfers[1].submission_status = SUBMITTED
    /\ \A i \in PayoutsCreated : stripe_transfers[1].stripe_id = last.calls[i].id
    /\ PayoutsCreated # {}

\* C28: whatever the interleaving of the submits of a transfer, two at the
\* same time among them, the transfer has at most one managed_account_transfer:
\* the look-up and the create or update that follows act as one, the row
\* that is there being used and none added.
C28_OneManagedAccountTransfer ==
    \A transfer_id \in TransferIds :
        Cardinality(ManagedAccountTransfersOf(managed_account_transfers,
                                              transfer_id)) <= 1

----------------------------------------------------------------------------
(* Properties of CartPaymentRepository *)

\* caller k runs a statement that ends its call
Returns(k) == intent_calls[k].pc # "done" /\ intent_calls'[k].pc = "done"

OtherPaymentIntentsUnchanged(id) ==
    /\ DOMAIN payment_intents' = DOMAIN payment_intents
    /\ \A i \in DOMAIN payment_intents \ {id} : payment_intents'[i] = payment_intents[i]

\* C18: update_payment_intent_status(id, new_status, previous_status) sets the
\* status of the payment intent to new_status when the row exists with status
\* previous_status, and returns; when there is no such row, or its status is
\* another, it raises PaymentIntentCouldNotBeUpdatedError and changes no row.
C18_StatusGuardedUpdate ==
    [][\A k \in Callers :
        (Returns(k) /\ intent_calls[k].op = UPDATE_PAYMENT_INTENT_STATUS) =>
            LET call == intent_calls[k]
            IN  /\ pgp_payment_intents' = pgp_payment_intents
                /\ IF /\ call.id \in DOMAIN payment_intents
                      /\ payment_intents[call.id].status = call.previous_status
                   THEN /\ intent_calls'[k].result = "OK"
                        /\ payment_intents'[call.id].status = call.new_status
                        /\ payment_intents'[call.id].id = call.id
                        /\ OtherPaymentIntentsUnchanged(call.id)
                   ELSE /\ intent_calls'[k].result = "PaymentIntentCouldNotBeUpdatedError"
                        /\ payment_intents' = payment_intents]_vars

C18_Witness ==
    \E k \in Callers :
        /\ intent_calls[k].op = UPDATE_PAYMENT_INTENT_STATUS
        /\ intent_calls[k].pc = "done"
        /\ intent_calls[k].result = "PaymentIntentCouldNotBeUpdatedError"
        /\ intent_calls[k].id \in DOMAIN payment_intents
        /\ intent_calls[k].new_status # intent_calls[k].status_at_call
        /\ payment_intents[intent_calls[k].id].status = intent_calls[k].status_at_call
        /\ payment_intents[intent_calls[k].id].updated_at = 0

\* the two callers have both run update_payment_intent_status on one payment
\* intent that has a row, each with a previous_status of its own
ConcurrentStatusUpdates ==
    /\ \A k \in Callers :
          /\ intent_calls[k].op = UPDATE_PAYMENT_INTENT_STATUS
          /\ intent_calls[k].pc = "done"
          /\ intent_calls[k].id \in DOMAIN payment_intents
    /\ intent_calls[1].id = intent_calls[2].id
    /\ intent_calls[1].previous_status # intent_calls[2].previous_status

Succeeded(k) == intent_calls[k].result = "OK"

CouldNotBeUpdated(k) == intent_calls[k].result = "PaymentIntentCouldNotBeUpdatedError"

\* C19 (as stated): of two update_payment_intent_status calls made at the same
\* time on one payment intent with different previous_status, in whatever
\* order they run, one succeeds and the other raises
\* PaymentIntentCouldNotBeUpdatedError.
C19_ExactlyOneSucceeds ==
    ConcurrentStatusUpdates =>
        \E k \in Callers : \E j \in Callers \ {k} :
            Succeeded(k) /\ CouldNotBeUpdated(j)

\* C19 (amended): of two such calls, when the status of the payment intent is
\* the previous_status of one of them and the new_status of that one is not
\* the previous_status of the other, that one succeeds and the other raises
\* PaymentIntentCouldNotBeUpdatedError, in whatever order they run; when the
\* status is the previous_status of neither, both raise.
C19_MatchingCallSucceeds ==
    ConcurrentStatusUpdates =>
        /\ \A k \in Callers : \A j \in Callers \ {k} :
              (/\ intent_calls[k].status_at_call = intent_calls[k].previous_status
               /\ intent_calls[k].new_status # intent_calls[j].previous_status)
              => (Succeeded(k) /\ CouldNotBeUpdated(j))
        /\ (\A k \in Callers :
               intent_calls[k].status_at_call # intent_calls[k].previous_status)
              => \A k \in Callers : CouldNotBeUpdated(k)

C19_Witness ==
    /\ ConcurrentStatusUpdates
    /\ intent_calls[2].status_at_call = intent_calls[2].previous_status
    /\ intent_calls[2].new_status # intent_calls[1].previous_status
    /\ Succeeded(2)
    /\ CouldNotBeUpdated(1)
    /\ payment_intents[intent_calls[2].id].status = intent_calls[2].new_status
    /\ payment_intents[intent_calls[2].id].updated_at = 2

\* C20: update_payment_and_pgp_payment_intent_status returns None, and has
\* changed no row, when its first statement finds no pgp_payment_intent; when
\* it finds one it goes on, and the call ends with both rows at new_status,
\* or, the payment intent having no row, with an error, the
\* pgp_payment_intent as it was before the call wrote it and no payment
\* intent changed.
C20_PairUpdatedTogether ==
    [][\A k \in Callers :
        LET call == intent_calls[k]
            result == intent_calls'[k].result
            found == /\ call.pgp_id \in DOMAIN pgp_payment_intents
                     /\ pgp_payment_intents[call.pgp_id].payment_intent_id = call.id
        IN  (/\ call.op = UPDATE_PAYMENT_AND_PGP_PAYMENT_INTENT_STATUS
             /\ intent_calls'[k] # call)
            => IF call.pc = "called"
               THEN IF found
                    THEN intent_calls'[k].pc = "in_transaction"
                    ELSE /\ intent_calls'[k].pc = "done"
                         /\ result = "None"
                         /\ payment_intents' = payment_intents
                         /\ pgp_payment_intents' = pgp_payment_intents
               ELSE /\ intent_calls'[k].pc = "done"
                    /\ IF call.id \in DOMAIN payment_intents
                       THEN /\ result = "OK"
                            /\ payment_intents'[call.id].status = call.new_status
                            /\ pgp_payment_intents'[call.pgp_id].status = call.new_status
                            /\ pgp_payment_intents'[call.pgp_id].payment_intent_id = call.id
                       ELSE /\ result = "ValueError"
                            /\ payment_intents' = payment_intents
                            /\ pgp_payment_intents'[call.pgp_id] = call.undo]_vars

C20_Witness ==
    \E k \in Callers :
        /\ intent_calls[k].op = UPDATE_PAYMENT_AND_PGP_PAYMENT_INTENT_STATUS
        /\ intent_calls[k].pc = "done"
        /\ intent_calls[k].result = "ValueError"
        /\ intent_calls[k].undo.status # intent_calls[k].new_status
        /\ pgp_payment_intents[intent_calls[k].pgp_id] = intent_calls[k].undo
        /\ intent_calls[k].id \notin DOMAIN payment_intents

\* the history rows of a payment intent and an idempotency key
AdjustmentsOf(payment_intent_id, idempotency_key) ==
    {h \in DOMAIN payment_intents_adjustment_history :
        /\ payment_intents_adjustment_history[h].payment_intent_id = payment_intent_id
        /\ payment_intents_adjustment_history[h].idempotency_key = idempotency_key}

\* the adjustment j repeats the payment intent and the key of the earlier i
Replays(i, j) ==
    /\ i < j
    /\ adjustment_calls[i].payment_intent_id = adjustment_calls[j].payment_intent_id
    /\ adjustment_calls[i].idempotency_key = adjustment_calls[j].idempotency_key

\* C21: of two adjustments of one payment intent with one idempotency key,
\* the second inserts no history row, so that the key has one row, and both
\* return that row: the same amount_original, amount_delta and amount.
C21_AdjustmentIsIdempotent ==
    \A i \in DOMAIN adjustment_calls : \A j \in DOMAIN adjustment_calls :
        (Replays(i, j) /\ adjustment_calls[i].exc = "None")
        => /\ Cardinality(AdjustmentsOf(adjustment_calls[i].payment_intent_id,
                                        adjustment_calls[i].idempotency_key)) = 1
           /\ adjustment_calls[j].exc = "None"
           /\ adjustment_calls[j].row = adjustment_calls[i].row
           /\ \E h \in DOMAIN payment_intents_adjustment_history :
                 payment_intents_adjustment_history[h] = adjustment_calls[i].row

C21_Witness ==
    \E i \in DOMAIN adjustment_calls : \E j \in DOMAIN adjustment_calls :
        /\ Replays(i, j)
        /\ adjustment_calls[i].exc = "None"
        /\ adjustment_calls[j].amount_delta # adjustment_calls[i].amount_delta
        /\ adjustment_calls[j].row = adjustment_calls[i].row
        /\ adjustment_calls[j].row.amount_delta = adjustment_calls[i].amount_delta
        /\ Len(payment_intents_adjustment_history) = 1

\* what an update that finds no row is to tell its caller
NotFoundSignals == {"None", "PaymentIntentCouldNotBeUpdatedError"}

UpdateByIdOps == {UPDATE_PAYMENT_INTENT_CAPTURE_STATE, UPDATE_PGP_PAYMENT_INTENT_STATUS}

\* the call finds the row of its id
FindsRow(call) ==
    IF call.op = UPDATE_PGP_PAYMENT_INTENT_STATUS
    THEN call.pgp_id \in DOMAIN pgp_payment_intents
    ELSE call.id \in DOMAIN payment_intents

\* C22: an update by id of an id that matches no row returns a not-found
\* signal, None or the error made for it, and changes no row; of an id that
\* matches it returns, the row updated.
C22_UpdateByIdNotFound ==
    [][\A k \in Callers :
        (Returns(k) /\ intent_calls[k].op \in UpdateByIdOps) =>
            LET call == intent_calls[k]
            IN  IF FindsRow(call)
                THEN /\ intent_calls'[k].result = "OK"
                     /\ IF call.op = UPDATE_PGP_PAYMENT_INTENT_STATUS
                        THEN pgp_payment_intents'[call.pgp_id].status = call.new_status
                        ELSE payment_intents'[call.id].status = call.new_status
                ELSE /\ intent_calls'[k].result \in NotFoundSignals
                     /\ payment_intents' = payment_intents
                     /\ pgp_payment_intents' = pgp_payment_intents]_vars

\* the pgp_payment_intent row as committed: the row a transaction under way
\* has written shows to the others as it was before
CommittedPgpPaymentIntent(g) ==
    LET writers == {j \in Callers : /\ intent_calls[j].pc = "in_transaction"
                                    /\ intent_calls[j].pgp_id = g}
    IN  IF writers = {} THEN pgp_payment_intents[g]
        ELSE intent_calls[CHOOSE j \in writers : TRUE].undo

\* every pgp_payment_intent has the status of its payment intent
PairsAgree ==
    \A g \in DOMAIN pgp_payment_intents :
        LET pgp == CommittedPgpPaymentIntent(g)
        IN  pgp.payment_intent_id \in DOMAIN payment_intents
            => pgp.status = payment_intents[pgp.payment_intent_id].status

\* C23: a payment intent and its pgp_payment_intent that have the same status
\* have the same status after any status-changing operation of the
\* repository: from a pair inserted with one status they never diverge.
C23_PairNeverDiverges ==
    [][PairsAgree => PairsAgree']_vars

\* the state machine of a payment intent
StatusEdges ==
    {<<"requires_capture", "capturing">>, <<"capturing", "succeeded">>,
     <<"capturing", "cancelled">>, <<"requires_capture", "failed">>,
     <<"capturing", "failed">>}

\* C24: the status of a payment intent changes along the edges of the state
\* machine only; one that is succeeded or cancelled changes no more.
C24_StatusFollowsStateMachine ==
    [][\A i \in DOMAIN payment_intents :
          payment_intents'[i].status # payment_intents[i].status
          => <<payment_intents[i].status, payment_intents'[i].status>> \in StatusEdges]_vars

PaymentIntentStatusOps ==
    {UPDATE_PAYMENT_INTENT_STATUS, UPDATE_PAYMENT_INTENT_CAPTURE_STATE,
     UPDATE_PAYMENT_AND_PGP_PAYMENT_INTENT_STATUS}

\* caller k asked for a transition of the payment intent from the status it
\* saw when it made the call
TransitionFromObserved(k) ==
    /\ intent_calls[k].op \in PaymentIntentStatusOps
    /\ intent_calls[k].id \in DOMAIN payment_intents
    /\ intent_calls[k].new_status # intent_calls[k].status_at_call
    /\ intent_calls[k].op = UPDATE_PAYMENT_INTENT_STATUS
          => intent_calls[k].previous_status = intent_calls[k].status_at_call

\* C25: an operation changes the status of a payment intent or of a
\* pgp_payment_intent only when the status of the row is the one its caller
\* expects; so of two transitions of one payment intent asked for at the same
\* time from the status both callers saw, not both are applied.
C25_StatusChangesAreConditional ==
    /\ [][\A k \in Callers :
            LET call == intent_calls[k]
            IN  /\ (/\ intent_calls'[k] # call
                    /\ call.id \in DOMAIN payment_intents
                    /\ payment_intents'[call.id].status # payment_intents[call.id].status)
                   => call.previous_status = payment_intents[call.id].status
                /\ (/\ intent_calls'[k] # call
                    /\ call.pgp_id \in DOMAIN pgp_payment_intents
                    /\ pgp_payment_intents'[call.pgp_id].status
                          # pgp_payment_intents[call.pgp_id].status)
                   => call.previous_status = pgp_payment_intents[call.pgp_id].status]_vars
    /\ []((/\ \A k \in Callers : TransitionFromObserved(k) /\ intent_calls[k].pc = "done"
           /\ intent_calls[1].id = intent_calls[2].id)
          => ~(Succeeded(1) /\ Succeeded(2)))

\* the history row is still there, with what it recorded
Kept(row, history) ==
    \E j \in DOMAIN history :
        /\ history[j].id = row.id
        /\ history[j].payment_intent_id = row.payment_intent_id
        /\ history[j].amount_original = row.amount_original
        /\ history[j].amount_delta = row.amount_delta
        /\ history[j].amount = row.amount
        /\ history[j].idempotency_key = row.idempotency_key

\* C32: payment_intents_adjustment_history is append-only: a row that was
\* inserted is in every later state with the same amount_original,
\* amount_delta, amount and idempotency_key, and no row is removed.
C32_HistoryIsAppendOnly ==
    [][/\ Len(payment_intents_adjustment_history')
            >= Len(payment_intents_adjustment_history)
       /\ \A i \in DOMAIN payment_intents_adjustment_history :
             Kept(payment_intents_adjustment_history[i],
                  payment_intents_adjustment_history')]_vars

C32_Witness ==
    /\ Len(payment_intents_adjustment_history) >= 2
    /\ Len(adjustment_calls) > Len(payment_intents_adjustment_history)
    /\ payment_intents_adjustment_history[1].amount
          # payment_intents[payment_intents_adjustment_history[1].payment_intent_id].amount

\* the payment intents that require capture and are due at the cutoff
DueForCapture(cutoff) ==
    {i \in DOMAIN payment_intents :
        /\ payment_intents[i].status = REQUIRES_CAPTURE
        /\ payment_intents[i].capture_after # NULL
        /\ payment_intents[i].capture_after <= cutoff}

QueriesOf(op) == {q \in DOMAIN queries : queries[q].op = op}

TerminalStatus == {SUCCEEDED, CANCELLED, "failed"}

\* C34: count_payment_intents_that_require_capture(threshold) is the number
\* of payment intents that are in no terminal state, FAILED being one, and
\* whose capture_after is at or before now minus the threshold.
C34_CountsNonTerminalDue ==
    \A q \in QueriesOf(COUNT_PAYMENT_INTENTS) :
        queries[q].result =
            Cardinality({i \in DOMAIN payment_intents :
                /\ payment_intents[i].status \notin TerminalStatus
                /\ payment_intents[i].capture_after # NULL
                /\ payment_intents[i].capture_after <= queries[q].cutoff})

\* C40: for every routing key and interval type, the current interval
\* holds its routing key, start <= routing_key < end, and end minus start is
\* one interval, 1 day or 7, also when the routing key is on a boundary.
C40_IntervalHoldsRoutingKey ==
    \A q \in QueriesOf(PACIFIC_INTERVAL) :
        /\ queries[q].start_time <= queries[q].routing_key
        /\ queries[q].routing_key < queries[q].end_time
        /\ queries[q].end_time - queries[q].start_time
              = IF queries[q].interval = WEEKLY THEN 7 * Day ELSE Day

\* C39: after any sequence of create_stripe_payout_request and
\* get_stripe_payout_request_by_payout_id, the assertion of the get that a
\* payout_id that has a request row has exactly one does not fail.
C39_OneRequestPerPayout ==
    \A q \in QueriesOf(GET_STRIPE_PAYOUT_REQUEST) :
        queries[q].exc # "AssertionError"

----------------------------------------------------------------------------
(* Properties of two submits of one transfer at the same time *)

\* the submit of caller k has got past the guards of lines 196-236
PassedGuards(k) == submits[k].pc \in {"checks", "create", "gateway"}

\* the createPayout calls of the submit of caller k
PayoutCallsOf(k) == CallsOf(submits[k].calls, "createPayout")

\* C31: the duplicate-submission and in-flight guards are read-then-act.  A
\* submit passes them on the rows it read (retry set, and no stripe_transfer
\* of the transfer SUBMITTING at that moment), and a submit that has passed
\* them creates its stripe_transfer and goes to the gateway whatever another
\* submit has written since; so two submits of one transfer can both pass,
\* each create its stripe_transfer and each call createPayout.
C31_GuardsAreReadThenAct ==
    [][\A k \in Submitters :
          /\ (submits[k].pc = "guards" /\ submits'[k].pc # "guards")
             => (PassedGuards(k)' <=>
                    /\ submits[k].retry
                    /\ \A i \in StripeTransfersOf(Rows, CheckedTransferId) :
                          stripe_transfers[i].submission_status # SUBMITTING)
          /\ (submits[k].pc = "create" /\ submits'[k].pc # "create")
             => /\ Len(stripe_transfers') = Len(stripe_transfers) + 1
                /\ submits'[k].stripe_transfer_id = Len(stripe_transfers')
                /\ stripe_transfers'[Len(stripe_transfers')].submission_status
                      = SUBMITTING
                /\ submits'[k].pc = "gateway"]_vars

C31_Witness ==
    /\ \A k \in Submitters :
          /\ submits[k].pc = "done"
          /\ submits[k].ongoing = 0
          /\ submits[k].stripe_transfer_id # 0
          /\ stripe_transfers[submits[k].stripe_transfer_id].transfer_id
                = CheckedTransferId
          /\ PayoutCallsOf(k) # {}
          /\ \A i \in PayoutCallsOf(k) : submits[k].calls[i].ok
    /\ submits[1].stripe_transfer_id # submits[2].stripe_transfer_id

====
